---- MODULE Spec2Model ----
(***************************************************************************)
(* Process Hacker main window: provider callbacks post entity events to    *)
(* the window's message queue, the window procedure applies them to the    *)
(* displayed rows, and HighlightingContext / HighlightedListViewItem give  *)
(* new and removed rows a transient tint.                                  *)
(***************************************************************************)
EXTENDS Integers, Sequences, FiniteSets, TLC

\* ------------------------------------------------------------------ bounds
MaxMods == 1        \* Modified events a provider publishes per entity
MaxQueue == 2       \* posted messages plus armed timers the model lets build up
MaxTime == 3        \* the clock stops here
MaxItems == 1       \* rows the highlighting scenario creates
MaxActs == 1        \* queued highlight actions the highlighting scenario lets build up
MaxStepActs == 2    \* the same, in the statement-by-statement scenario
MaxSaves == 3          \* PhpSaveAllSettings calls a run may ask for
MaxServices == 2    \* services selected when the context menu is built
MaxLockItems == 2   \* rows the lock-by-lock scenario creates

\* ------------------------------------------------------------------- time
\* One unit of the clock is 1000 ms.
Duration == 1       \* HighlightingDuration, 1000 ms
TickPeriod == 1     \* provider interval, 1000 ms: Tick() is called once per run

\* ---------------------------------------------------------------- entities
\* One process item and two service items; s1 and s2 carry the same service
\* name (a service deleted and created again), so s2 is only observed once
\* s1 has been retired.  A run observes the entities of one scenario.
Procs == {"p1"}
Svcs == {"s1", "s2"}
Ents == Procs \cup Svcs
NoEnt == "none"
Scenarios == {{"p1", "s1"}, {"s1", "s2"}}
SingleScenarios == {{"p1"}, {"s1"}}
PairScenario == {"p1", "s1"}
\* s2 is the service s1's name seen again.
Reuses == {<<"s2", "s1">>}

KeyOf(e) == IF e \in Procs THEN "pid1" ELSE "svcA"

VARIABLES
    scenario,           \* the entities the providers get to observe in this run
    phase,              \* provider's view of each entity
    mods,               \* Modified events published per entity
    refcount,           \* object reference count of each entity
    runId,              \* service provider run id: 1, or 2 for any later run
    msgs,               \* posted messages of the main window, oldest first
    consumed,           \* entity events the window procedure has handled
    wndLive,            \* PhMainWndHandle is a live window
    items,              \* every list item created so far, in creation order
    stateHighlighting,  \* HighlightingContext._stateHighlighting
    queue,              \* HighlightingContext._queue
    postQueue,          \* HighlightingContext._postQueue
    postQueuePending,   \* HighlightingContext._postQueuePending
    timers,             \* due times of the one-shot highlight timers armed
    now,                \* the clock
    lastTick,           \* when Tick() was last called
    discarded,          \* the callbacks ("Tick", "Timer") that have found the
                        \* list's handle gone and returned without posting
    heap,               \* the PH_SERVICE_MODIFIED_DATA copies: allocated,
                        \* freed, and the faults made on them
    highlightingDuration, \* HighlightingContext._highlightingDuration
    sync,               \* the monitors of the three queues: who owns each, and
                        \* where the UI thread and a worker thread are in
                        \* their lock statements
    PhMainWndExiting,   \* BOOLEAN PhMainWndExiting
    saved,              \* calls of PhpSaveAllSettings so far
    log,                \* what the window procedure last did: the early
                        \* shutdown message it handled, its answer to
                        \* WM_PH_ACTIVATE, the result of the elevated relaunch,
                        \* the command it completed
    command,            \* the WM_COMMAND handler that is inside its operation,
                        \* with the items it selected
    menu                \* the service context menu and what it was last
                        \* initialised for

vars == <<scenario, phase, mods, refcount, runId, msgs, consumed, wndLive, items,
          stateHighlighting, queue, postQueue, postQueuePending, timers,
          now, lastTick, discarded, heap, highlightingDuration, sync,
          PhMainWndExiting, saved, log, command, menu>>

provVars == <<scenario, phase, mods, runId>>
hlVars == <<items, stateHighlighting, queue, postQueue, postQueuePending>>
clock == <<now, lastTick>>
shellVars == <<PhMainWndExiting, saved, log, command, menu>>

\* ------------------------------------------------------------------ helpers
\* Number of events the provider has published for e: Added, the Modified
\* ones, Removed.
Published(e) ==
    CASE phase[e] = "unborn" -> 0
      [] phase[e] = "live" -> 1 + mods[e]
      [] phase[e] = "retired" -> 2 + mods[e]

Msg(t, e, n, r) == [type |-> t, ent |-> e, seq |-> n, runId |-> r]

\* Room for one more posted message (the real queue is far larger; the
\* model only keeps producers from running arbitrarily far ahead).
HasRoom == Len(msgs) + Len(timers) < MaxQueue

PhReferenceObject(rc, e) == [rc EXCEPT ![e] = @ + 1]
PhDereferenceObject(rc, e) == [rc EXCEPT ![e] = @ - 1]

\* PostMessage appends to the window's posted-message queue; it fails, and
\* posts nothing, once the window has been destroyed.
\* The heap blocks of the service-modified copies.  A copy is named by the
\* event it was made for (the service and the event's number).
\* PhAllocateCopy: a fresh block.
PhAllocateCopy(h, id) == [h EXCEPT !.live = @ \cup {id}]

\* PhFree: the block is released; freeing a block that is not allocated is a
\* fault.
PhFree(h, id) ==
    IF id \in h.live
    THEN [h EXCEPT !.live = @ \ {id}, !.freed = @ \cup {id}]
    ELSE [h EXCEPT !.faults = @ \cup {<<"free", id>>}]

\* Reading through a pointer to a block; a fault when it is not allocated.
PhRead(h, id) ==
    IF id \in h.live THEN h ELSE [h EXCEPT !.faults = @ \cup {<<"read", id>>}]

PostMessage(q, m) == IF wndLive THEN Append(q, m) ELSE q

InFlight(e) == Cardinality({i \in 1..Len(msgs) : msgs[i].ent = e})

Rows(e) == {i \in 1..Len(items) : items[i].inList /\ items[i].ent = e}
RowsOfKey(k) == {i \in 1..Len(items) : items[i].inList /\ KeyOf(items[i].ent) = k}

Min(S) == CHOOSE x \in S : \A y \in S : x <= y

\* The monitors lock (_queue), lock (_postQueue), lock (_postQueuePending).
Locks == {"_queue", "_postQueue", "_postQueuePending"}

\* No action in hand.
NoAct == [op |-> "none", item |-> 0]

\* ------------------------------------------------------ service context menu
\* The items of the service context menu (IDR_SERVICE).
ServiceMenuItems == {"ID_SERVICE_START", "ID_SERVICE_CONTINUE",
                     "ID_SERVICE_PAUSE", "ID_SERVICE_STOP",
                     "ID_SERVICE_DELETE", "ID_SERVICE_PROPERTIES"}

\* SERVICE_STATUS.dwCurrentState.
ServiceStates == {"SERVICE_STOPPED", "SERVICE_START_PENDING",
                  "SERVICE_STOP_PENDING", "SERVICE_RUNNING",
                  "SERVICE_CONTINUE_PENDING", "SERVICE_PAUSE_PENDING",
                  "SERVICE_PAUSED"}

\* SERVICE_STATUS.dwControlsAccepted is a bit mask; the two bits the menu
\* looks at, and the masks over the three lowest bits.
SERVICE_ACCEPT_STOP == 1
SERVICE_ACCEPT_PAUSE_CONTINUE == 2
ControlMasks == 0..7

\* Mutant: any accepted control counts as the one asked for.
BitAnd_Any(mask, bit) == IF mask # 0 THEN bit ELSE 0

\* mask & bit, for a bit that is a power of two.
BitAnd(mask, bit) == IF (mask \div bit) % 2 = 1 THEN bit ELSE 0

\* LoadMenu / GetSubMenu: every item present and enabled.
LoadMenu == [id \in ServiceMenuItems |-> "enabled"]

\* PhEnableMenuItem(Menu, Id, Enable): a deleted item stays deleted.
PhEnableMenuItem(m, id, enable) ==
    IF m[id] = "deleted" THEN m
    ELSE [m EXCEPT ![id] = IF enable # 0 THEN "enabled" ELSE "disabled"]

\* PhEnableAllMenuItems(Menu, Enable).
PhEnableAllMenuItems(m, enable) ==
    [id \in ServiceMenuItems |->
        IF m[id] = "deleted" THEN "deleted"
        ELSE IF enable # 0 THEN "enabled" ELSE "disabled"]

\* DeleteMenu(Menu, Id, 0).
DeleteMenu(m, id) == [m EXCEPT ![id] = "deleted"]

\* The switch on Services[0]->State.
ServiceStateCase(m, state, controlsAccepted) ==
    CASE state = "SERVICE_RUNNING" ->
            PhEnableMenuItem(
                PhEnableMenuItem(
                    PhEnableMenuItem(
                        PhEnableMenuItem(m, "ID_SERVICE_START", 0),
                        "ID_SERVICE_CONTINUE", 0),
                    "ID_SERVICE_PAUSE",
                    BitAnd(controlsAccepted, SERVICE_ACCEPT_PAUSE_CONTINUE)),
                "ID_SERVICE_STOP",
                BitAnd(controlsAccepted, SERVICE_ACCEPT_STOP))
      [] state = "SERVICE_PAUSED" ->
            PhEnableMenuItem(
                PhEnableMenuItem(
                    PhEnableMenuItem(
                        PhEnableMenuItem(m, "ID_SERVICE_START", 0),
                        "ID_SERVICE_CONTINUE",
                        BitAnd(controlsAccepted, SERVICE_ACCEPT_PAUSE_CONTINUE)),
                    "ID_SERVICE_PAUSE", 0),
                "ID_SERVICE_STOP",
                BitAnd(controlsAccepted, SERVICE_ACCEPT_STOP))
      [] state = "SERVICE_STOPPED" ->
            PhEnableMenuItem(
                PhEnableMenuItem(
                    PhEnableMenuItem(m, "ID_SERVICE_CONTINUE", 0),
                    "ID_SERVICE_PAUSE", 0),
                "ID_SERVICE_STOP", 0)
      [] state \in {"SERVICE_START_PENDING", "SERVICE_CONTINUE_PENDING",
                    "SERVICE_PAUSE_PENDING", "SERVICE_STOP_PENDING"} ->
            PhEnableMenuItem(
                PhEnableMenuItem(
                    PhEnableMenuItem(
                        PhEnableMenuItem(m, "ID_SERVICE_START", 0),
                        "ID_SERVICE_CONTINUE", 0),
                    "ID_SERVICE_PAUSE", 0),
                "ID_SERVICE_STOP", 0)
      [] OTHER -> m

\* PhpInitializeServiceMenu(Menu, Services, NumberOfServices), Services[0]
\* being in the given state and accepting the given controls.
PhpInitializeServiceMenu(m, numberOfServices, state, controlsAccepted) ==
    LET m1 == IF numberOfServices = 0 THEN PhEnableAllMenuItems(m, 0)
              ELSE IF numberOfServices = 1 THEN m
              ELSE PhEnableAllMenuItems(m, 0)
    IN  IF numberOfServices = 1
        THEN LET m2 == ServiceStateCase(m1, state, controlsAccepted)
             IN  IF BitAnd(controlsAccepted, SERVICE_ACCEPT_PAUSE_CONTINUE) = 0
                 THEN DeleteMenu(DeleteMenu(m2, "ID_SERVICE_CONTINUE"),
                                 "ID_SERVICE_PAUSE")
                 ELSE m2
        ELSE m1

\* A menu just loaded for a selection, not yet initialised.
MenuFor(n, state, controlsAccepted) ==
    [numberOfServices |-> n, state |-> state,
     controlsAccepted |-> controlsAccepted,
     items |-> LoadMenu, initialized |-> FALSE]

\* PhpInitializeServiceMenu is called on the menu loaded for the selection.
ServiceMenuInitialized ==
    /\ ~menu.initialized
    /\ menu' = [menu EXCEPT
                    !.items = PhpInitializeServiceMenu(@, menu.numberOfServices,
                                  menu.state, menu.controlsAccepted),
                    !.initialized = TRUE]
    /\ UNCHANGED <<PhMainWndExiting, saved, log, command, sync, heap,
                   highlightingDuration, clock, discarded, provVars, refcount,
                   msgs, consumed, wndLive, hlVars, timers>>

\* No command handler is inside an operation.
NoCommand == [id |-> "none", ents |-> {}]

\* ---------------------------------------------------------------- Init
\* The main window after PhMainWndInitialization, but for the menu.
StartWnd ==
    /\ phase = [e \in Ents |-> "unborn"]
    /\ mods = [e \in Ents |-> 0]
    /\ refcount = [e \in Ents |-> 0]
    /\ runId = 1
    /\ msgs = <<>>
    /\ consumed = [e \in Ents |-> 0]
    /\ wndLive = TRUE
    /\ items = <<>>
    /\ stateHighlighting = TRUE
    /\ queue = <<>>
    /\ postQueue = <<>>
    /\ postQueuePending = <<>>
    /\ timers = <<>>
    /\ now = 0
    /\ lastTick = 0
    /\ discarded = {}
    /\ heap = [live |-> {}, freed |-> {}, faults |-> {}]
    /\ highlightingDuration = Duration
    /\ sync = [owner |-> [l \in Locks |-> "none"],
               ui |-> "idle", uiAct |-> NoAct,
               worker |-> "idle", workerAct |-> NoAct]
    /\ PhMainWndExiting = FALSE
    /\ saved = 0
    /\ log = [shutdown |-> "none", activate |-> "none", relaunch |-> "none",
              command |-> "none"]
    /\ command = NoCommand

Start == StartWnd /\ menu = MenuFor(0, "SERVICE_STOPPED", 0)

Init == scenario \in Scenarios /\ Start

\* ------------------------------------------------ HighlightedListViewItem
\* A queued highlight action: the closure and the item it captured.
Act(op, i) == [op |-> op, item |-> i]

\* The state the UI thread's handlers work on: reference counts, list items,
\* the highlighting flag, the immediate queue and the pending buffer.
UI == [rc |-> refcount, its |-> items, hl |-> stateHighlighting,
       q |-> queue, pend |-> postQueuePending, heap |-> heap]

EnqueuePost(u, a) == [u EXCEPT !.pend = Append(@, a)]
Enqueue(u, a) == [u EXCEPT !.q = Append(@, a)]

\* new HighlightedListViewItem(context, text) for entity e, appended to the
\* list: with state highlighting on the item starts in the New colour and
\* state and its decay to Normal is handed to EnqueuePost; otherwise it
\* starts in the normal colour.  born is the time the item entered the
\* temporary state it is in, 0 for an item in the Normal state.
NewItem(u, e) ==
    LET i == Len(u.its) + 1
        it == [ent |-> e, shown |-> mods[e], inList |-> TRUE,
               state |-> IF u.hl THEN "New" ELSE "Normal",
               color |-> IF u.hl THEN "New" ELSE "Normal",
               born |-> IF u.hl THEN now ELSE 0,
               normalColor |-> "Window"]
        u1 == [u EXCEPT !.its = Append(@, it)]
    IN  IF u.hl THEN EnqueuePost(u1, Act("SetNormal", i)) ELSE u1

\* Mutant: the queued removal tint forgets to hand BaseRemove to EnqueuePost.
Invoke_NoBaseRemove(u, a) ==
    CASE a.op = "TintRemoved" -> [u EXCEPT !.its[a.item].color = "Removed"]
      [] a.op = "SetNormal" ->
            [u EXCEPT !.its[a.item].color = "Normal",
                      !.its[a.item].state = "Normal"]
      [] a.op = "BaseRemove" -> [u EXCEPT !.its[a.item].inList = FALSE]

\* Mutant: Remove() queues the removal tint whatever the flag says.
ItemRemove_AlwaysQueued(u, i) == Enqueue(u, Act("TintRemoved", i))

\* HighlightedListViewItem.Remove() on item i.
ItemRemove(u, i) ==
    IF u.hl
    THEN Enqueue(u, Act("TintRemoved", i))
    ELSE [u EXCEPT !.its[i].inList = FALSE]

\* The states SetTemporaryState has a colour for (Colors holds New and
\* Removed only).
TemporaryStates == {"New", "Removed"}

TempOp(st) == IF st = "New" THEN "TempNew" ELSE "TempRemoved"

\* HighlightedListViewItem.SetTemporaryState(state) on item i: the tint is
\* queued whatever StateHighlighting says.
SetTemporaryState(u, i, st) == Enqueue(u, Act(TempOp(st), i))

\* Executing one queued closure.
\*   TintRemoved : the closure Remove() queues: removal tint, then
\*                 EnqueuePost(BaseRemove); _state is left as it was
\*   SetNormal   : the decay closure: normal colour, state Normal
\*   BaseRemove  : base.Remove(): the row leaves the list
\*   TempNew, TempRemoved : the closure SetTemporaryState queues: colour and
\*                 state of the temporary state, then EnqueuePost(decay)
Invoke(u, a) ==
    CASE a.op = "TintRemoved" ->
            EnqueuePost([u EXCEPT !.its[a.item].color = "Removed"],
                        Act("BaseRemove", a.item))
      [] a.op = "SetNormal" ->
            [u EXCEPT !.its[a.item].color = "Normal",
                      !.its[a.item].state = "Normal",
                      !.its[a.item].born = 0]
      [] a.op = "BaseRemove" ->
            [u EXCEPT !.its[a.item].inList = FALSE]
      [] a.op = "TempNew" ->
            EnqueuePost([u EXCEPT !.its[a.item].color = "New",
                                  !.its[a.item].state = "New",
                                  !.its[a.item].born = now],
                        Act("SetNormal", a.item))
      [] a.op = "TempRemoved" ->
            EnqueuePost([u EXCEPT !.its[a.item].color = "Removed",
                                  !.its[a.item].state = "Removed",
                                  !.its[a.item].born = now],
                        Act("SetNormal", a.item))

\* Mutant: the drain goes on into the pending buffer and executes what was
\* requested through EnqueuePost as well.
RECURSIVE Drain_WithPending(_, _)
Drain_WithPending(u, q) ==
    IF q # <<>> THEN Drain_WithPending(Invoke(u, Head(q)), Tail(q))
    ELSE IF u.pend # <<>>
         THEN Drain_WithPending([Invoke(u, Head(u.pend)) EXCEPT !.pend = Tail(@)],
                                <<>>)
         ELSE u

\* while (q.Count > 0) q.Dequeue().Invoke();
RECURSIVE Drain(_, _)
Drain(u, q) == IF q = <<>> THEN u ELSE Drain(Invoke(u, Head(q)), Tail(q))

\* Mutant: the pending actions are thrown away instead of re-enqueued.
TransferPending_Drop(pq, pend) == pq

\* while (_postQueuePending.Count > 0)
\*     _postQueue.Enqueue(_postQueuePending.Dequeue());
TransferPending(pq, pend) == pq \o pend

\* ------------------------------------------------------------- list glue
RowsIn(its, e) == {i \in 1..Len(its) : its[i].inList /\ its[i].ent = e}
NodesIn(its, k) == {i \in 1..Len(its) : its[i].inList /\ KeyOf(its[i].ent) = k
                                        /\ its[i].ent \in Procs}

\* PhFindListViewItemByParam(ServiceListViewHandle, -1, item): the first row
\* whose parameter is the item, 0 when there is none.
PhFindListViewItemByParam(u, e) ==
    IF RowsIn(u.its, e) = {} THEN 0 ELSE Min(RowsIn(u.its, e))

\* PhFindProcessNode(ProcessId): the node shown for the process id.
PhFindProcessNode(u, k) ==
    IF NodesIn(u.its, k) = {} THEN 0 ELSE Min(NodesIn(u.its, k))

\* PhAddListViewItem / PhCreateProcessNode: a new row for the entity.
PhAddListViewItem(u, e) == NewItem(u, e)
PhCreateProcessNode(u, e) == NewItem(u, e)

\* PhRemoveListViewItem / PhRemoveProcessNode: Remove() on the row found;
\* nothing when none was found.
PhRemoveListViewItem(u, i) == IF i = 0 THEN u ELSE ItemRemove(u, i)
PhRemoveProcessNode(u, i) == IF i = 0 THEN u ELSE ItemRemove(u, i)

\* PhSetListViewSubItem / PhUpdateProcessNode: the row shows the entity's
\* current display fields.
PhSetListViewSubItem(u, i, e) ==
    IF i = 0 THEN u ELSE [u EXCEPT !.its[i].shown = mods[e]]
PhUpdateProcessNode(u, i) ==
    IF i = 0 THEN u ELSE [u EXCEPT !.its[i].shown = mods[u.its[i].ent]]

\* ------------------------------------------------ provider event handlers
\* Each handler runs on the provider's thread and gives the reference
\* counts and the posted-message queue it leaves behind.
\* Mutant: the Added handler posts the item without referencing it.
ProcessAddedHandler_NoRef(rc, q, e) ==
    [rc |-> rc, q |-> PostMessage(q, Msg("ProcessAdded", e, 1, 0))]

ProcessAddedHandler(rc, q, e) ==
    [rc |-> PhReferenceObject(rc, e),
     q |-> PostMessage(q, Msg("ProcessAdded", e, 1, 0))]

\* Mutant: the Modified handler references the item before posting it.
ProcessModifiedHandler_Ref(rc, q, e, n) ==
    [rc |-> PhReferenceObject(rc, e),
     q |-> PostMessage(q, Msg("ProcessModified", e, n, 0))]

ProcessModifiedHandler(rc, q, e, n) ==
    [rc |-> rc, q |-> PostMessage(q, Msg("ProcessModified", e, n, 0))]

ProcessRemovedHandler(rc, q, e, n) ==
    [rc |-> rc, q |-> PostMessage(q, Msg("ProcessRemoved", e, n, 0))]

ServiceAddedHandler(rc, q, e) ==
    [rc |-> PhReferenceObject(rc, e),
     q |-> PostMessage(q, Msg("ServiceAdded", e, 1, runId))]

\* The PH_SERVICE_MODIFIED_DATA is copied and the copy is posted; the copy
\* made for the n-th event of e is the block <<e, n>>.
ServiceModifiedHandler(rc, q, e, n) ==
    [rc |-> rc, q |-> PostMessage(q, Msg("ServiceModified", e, n, 0)),
     heap |-> PhAllocateCopy(heap, <<e, n>>)]

\* Mutant: the Removed handler sends instead of posting, so the message is
\* handled ahead of the ones already posted.
ServiceRemovedHandler_Send(rc, q, e, n) ==
    [rc |-> rc,
     q |-> IF wndLive THEN <<Msg("ServiceRemoved", e, n, 0)>> \o q ELSE q]

ServiceRemovedHandler(rc, q, e, n) ==
    [rc |-> rc, q |-> PostMessage(q, Msg("ServiceRemoved", e, n, 0))]

ServicesUpdatedHandler(q) == PostMessage(q, Msg("ServicesUpdated", NoEnt, 0, 0))

\* ------------------------------------------------------------- providers
\* A provider observes an entity (creation reference, Added), refreshes it
\* (Modified) and retires it (Removed, then its own reference is dropped).
\* Two entities with the same key are never live together.
CanPublish == HasRoom \/ ~wndLive

Handled(h) == refcount' = h.rc /\ msgs' = h.q

ProviderAdd(e) ==
    /\ phase[e] = "unborn"
    /\ \A o \in Ents : KeyOf(o) = KeyOf(e) => phase[o] # "live"
    /\ e \in scenario
    /\ \A r \in Reuses : r[1] = e => phase[r[2]] = "retired"
    /\ CanPublish
    /\ phase' = [phase EXCEPT ![e] = "live"]
    /\ LET rc1 == [refcount EXCEPT ![e] = 1]
       IN  Handled(IF e \in Procs THEN ProcessAddedHandler(rc1, msgs, e)
                                  ELSE ServiceAddedHandler(rc1, msgs, e))
    /\ UNCHANGED <<shellVars, sync, heap, highlightingDuration, clock, discarded,
                   scenario, mods, runId, consumed, wndLive, hlVars, timers>>

ProviderModify(e) ==
    /\ phase[e] = "live"
    /\ mods[e] < MaxMods
    /\ CanPublish
    /\ mods' = [mods EXCEPT ![e] = @ + 1]
    /\ LET h == IF e \in Procs
                THEN ProcessModifiedHandler(refcount, msgs, e, Published(e) + 1)
                ELSE ServiceModifiedHandler(refcount, msgs, e, Published(e) + 1)
       IN  /\ Handled(h)
           /\ heap' = IF e \in Procs THEN heap ELSE h.heap
    /\ UNCHANGED <<shellVars, sync, highlightingDuration, clock, discarded, scenario,
                   phase, runId, consumed, wndLive, hlVars, timers>>

ProviderRemove(e) ==
    /\ phase[e] = "live"
    /\ CanPublish
    /\ phase' = [phase EXCEPT ![e] = "retired"]
    /\ LET h == IF e \in Procs
                THEN ProcessRemovedHandler(refcount, msgs, e, Published(e) + 1)
                ELSE ServiceRemovedHandler(refcount, msgs, e, Published(e) + 1)
       IN  /\ refcount' = PhDereferenceObject(h.rc, e)
           /\ msgs' = h.q
    /\ UNCHANGED <<shellVars, sync, heap, highlightingDuration, clock, discarded,
                   scenario, mods, runId, consumed, wndLive, hlVars, timers>>

\* A provider observes an entity and its Added handler runs, but PostMessage
\* returns FALSE (the window's message queue is at its limit): the handler
\* has referenced the item and does not look at the result, so nothing is
\* posted and the window never sees this Added.
ProviderAddLost(e) ==
    /\ wndLive
    /\ phase[e] = "unborn"
    /\ \A o \in Ents : KeyOf(o) = KeyOf(e) => phase[o] # "live"
    /\ e \in scenario
    /\ \A r \in Reuses : r[1] = e => phase[r[2]] = "retired"
    /\ phase' = [phase EXCEPT ![e] = "live"]
    /\ LET rc1 == [refcount EXCEPT ![e] = 1]
           h == IF e \in Procs THEN ProcessAddedHandler(rc1, msgs, e)
                               ELSE ServiceAddedHandler(rc1, msgs, e)
       IN  refcount' = h.rc
    /\ UNCHANGED <<shellVars, sync, heap, highlightingDuration, clock, discarded,
                   scenario, mods, runId, msgs, consumed, wndLive, hlVars,
                   timers>>

\* The service provider ends a run: ServicesUpdated, next run id.
ProviderRunEnd ==
    /\ CanPublish
    /\ msgs' = ServicesUpdatedHandler(msgs)
    /\ runId' = 2
    /\ UNCHANGED <<shellVars, sync, heap, highlightingDuration, clock, discarded,
                   scenario, phase, mods, refcount, consumed, wndLive, hlVars,
                   timers>>

\* ----------------------------------------------- presentation synchronizer
PhMainWndOnProcessAdded(u, e) == PhCreateProcessNode(u, e)

PhMainWndOnProcessModified(u, e) ==
    PhUpdateProcessNode(u, PhFindProcessNode(u, KeyOf(e)))

\* Mutant: a Modified for a service without a row inserts the row.
PhMainWndOnServiceModified_Upsert(u, e) ==
    IF PhFindListViewItemByParam(u, e) = 0
    THEN PhAddListViewItem(u, e)
    ELSE PhSetListViewSubItem(u, PhFindListViewItemByParam(u, e), e)

\* Mutant: the node is removed but its reference is kept.
PhMainWndOnProcessRemoved_NoDeref(u, e) ==
    PhRemoveProcessNode(u, PhFindProcessNode(u, KeyOf(e)))

PhMainWndOnProcessRemoved(u, e) ==
    LET u1 == PhRemoveProcessNode(u, PhFindProcessNode(u, KeyOf(e)))
    IN  [u1 EXCEPT !.rc = PhDereferenceObject(@, e)]

\* Mutant: the row is inserted twice.
PhMainWndOnServiceAdded_Twice(u, r, e) ==
    PhAddListViewItem(
        PhAddListViewItem([u EXCEPT !.rc = PhReferenceObject(@, e)], e), e)

\* Mutant: the row is inserted with the flag as it is, whatever the run id.
PhMainWndOnServiceAdded_Flagged(u, r, e) ==
    PhAddListViewItem([u EXCEPT !.rc = PhReferenceObject(@, e)], e)

PhMainWndOnServiceAdded(u, r, e) ==
    LET u1 == [u EXCEPT !.rc = PhReferenceObject(@, e)]
        u2 == IF r = 1 THEN [u1 EXCEPT !.hl = FALSE] ELSE u1
        u3 == PhAddListViewItem(u2, e)
    IN  IF r = 1 THEN [u3 EXCEPT !.hl = TRUE] ELSE u3

\* Mutant: every Modified inserts the service's row again.
PhMainWndOnServiceModified_Insert(u, e) == PhAddListViewItem(u, e)

PhMainWndOnServiceModified(u, e) ==
    PhSetListViewSubItem(u, PhFindListViewItemByParam(u, e), e)

PhMainWndOnServiceRemoved(u, e) ==
    LET u1 == PhRemoveListViewItem(u, PhFindListViewItemByParam(u, e))
    IN  [u1 EXCEPT !.rc = PhDereferenceObject(@, e)]

\* PhMainWndProc on an entity message of type t: the handler, and for
\* WM_PH_SERVICE_ADDED the dereference that follows it.
PhMainWndProc(u, m) ==
    CASE m.type = "ProcessAdded" -> PhMainWndOnProcessAdded(u, m.ent)
      [] m.type = "ProcessModified" -> PhMainWndOnProcessModified(u, m.ent)
      [] m.type = "ProcessRemoved" -> PhMainWndOnProcessRemoved(u, m.ent)
      [] m.type = "ServiceAdded" ->
            LET u1 == PhMainWndOnServiceAdded(u, m.runId, m.ent)
            IN  [u1 EXCEPT !.rc = PhDereferenceObject(@, m.ent)]
      [] m.type = "ServiceModified" ->
            LET serviceModifiedData == <<m.ent, m.seq>>
                u1 == PhMainWndOnServiceModified(
                          [u EXCEPT !.heap = PhRead(@, serviceModifiedData)],
                          m.ent)
            IN  [u1 EXCEPT !.heap = PhFree(@, serviceModifiedData)]
      [] m.type = "ServiceRemoved" -> PhMainWndOnServiceRemoved(u, m.ent)

EntityTypes == {"ProcessAdded", "ProcessModified", "ProcessRemoved",
                "ServiceAdded", "ServiceModified", "ServiceRemoved"}

\* The message the window procedure handles next.
GetMessage(q) == Head(q)

Applied(u) ==
    /\ refcount' = u.rc
    /\ items' = u.its
    /\ stateHighlighting' = u.hl
    /\ queue' = u.q
    /\ postQueuePending' = u.pend
    /\ heap' = u.heap

\* The UI thread handles an Added / Modified / Removed message.
WmEntity ==
    /\ wndLive
    /\ msgs # <<>>
    /\ GetMessage(msgs).type \in EntityTypes
    /\ LET m == GetMessage(msgs)
       IN  /\ Applied(PhMainWndProc(UI, m))
           /\ consumed' = [consumed EXCEPT ![m.ent] = @ + 1]
    /\ msgs' = Tail(msgs)
    /\ UNCHANGED <<shellVars, sync, highlightingDuration, clock, discarded, provVars,
                   wndLive, postQueue, timers>>

\* Mutant: Tick() posts its task without looking at the list's handle.
Tick_NoGuard(q) == Append(q, Msg("TickTask", NoEnt, 0, 0))

\* HighlightingContext.Tick(): nothing when the list's handle does not exist,
\* otherwise its task is posted to the UI thread (BeginInvoke).
Tick(q) == IF wndLive THEN Append(q, Msg("TickTask", NoEnt, 0, 0)) ELSE q

\* Mutant: the batch-update handler ticks the list twice.
PhMainWndOnServicesUpdated_Twice(q) == Tick(Tick(q))

\* PhMainWndOnServicesUpdated: ExtendedListView_Tick on the service list.
PhMainWndOnServicesUpdated(q) == Tick(q)

\* WM_PH_SERVICES_UPDATED: PhMainWndOnServicesUpdated -> Tick().
WmServicesUpdated ==
    /\ wndLive
    /\ msgs # <<>>
    /\ GetMessage(msgs).type = "ServicesUpdated"
    /\ msgs' = PhMainWndOnServicesUpdated(Tail(msgs))
    /\ UNCHANGED <<shellVars, sync, heap, highlightingDuration, clock, discarded,
                   provVars, refcount, consumed, wndLive, hlVars, timers>>

\* Mutant: the timer is created with the initial duration instead of the
\* current one.
NewTimer_Initial(ts) == Append(ts, now + Duration)

\* new System.Threading.Timer(callback, null, HighlightingDuration,
\* Timeout.Infinite): a one-shot timer due after the duration current at
\* its creation.
NewTimer(ts) == Append(ts, now + highlightingDuration)

\* The task Tick() posted: the immediate queue is drained, then a one-shot
\* timer is created.
TickTask ==
    /\ wndLive
    /\ msgs # <<>>
    /\ GetMessage(msgs).type = "TickTask"
    /\ Applied([Drain(UI, queue) EXCEPT !.q = <<>>])
    /\ timers' = NewTimer(timers)
    /\ msgs' = Tail(msgs)
    /\ UNCHANGED <<shellVars, sync, highlightingDuration, clock, discarded, provVars,
                   consumed, wndLive, postQueue>>

\* Mutant: the timer callback runs the delayed batch itself, on the pool
\* thread, instead of posting it to the UI thread.
FireTimer_Direct(k) ==
    /\ timers' = [j \in 1..(Len(timers) - 1) |->
                      IF j < k THEN timers[j] ELSE timers[j + 1]]
    /\ LET u == Drain(UI, postQueue)
       IN  /\ Applied([u EXCEPT !.pend = <<>>])
           /\ postQueue' = TransferPending(<<>>, u.pend)
    /\ UNCHANGED <<shellVars, sync, highlightingDuration, clock, discarded, provVars,
                   msgs, consumed, wndLive>>

\* The k-th armed highlight timer fires on a pool thread: it posts the
\* delayed batch to the UI thread if the list's handle exists, and is
\* disposed.
FireTimer(k) ==
    /\ timers' = [j \in 1..(Len(timers) - 1) |->
                      IF j < k THEN timers[j] ELSE timers[j + 1]]
    /\ msgs' = PostMessage(msgs, Msg("BatchTask", NoEnt, 0, 0))
    /\ discarded' = IF wndLive THEN discarded ELSE discarded \cup {"Timer"}
    /\ UNCHANGED <<shellVars, sync, heap, highlightingDuration, clock, provVars,
                   refcount, consumed, wndLive, hlVars>>

\* A highlight timer fires; the main window's specifications leave the clock
\* alone, so there a timer may fire at any moment after it was armed.
TimerFire == \E k \in 1..Len(timers) : FireTimer(k)

\* A highlight timer fires when it is due.
TimerDue == \E k \in 1..Len(timers) : timers[k] <= now /\ FireTimer(k)

\* The delayed batch: the delayed queue is drained, then the pending buffer
\* is moved into it.
BatchTask ==
    /\ wndLive
    /\ msgs # <<>>
    /\ GetMessage(msgs).type = "BatchTask"
    /\ LET u == Drain(UI, postQueue)
       IN  /\ Applied([u EXCEPT !.pend = <<>>])
           /\ postQueue' = TransferPending(<<>>, u.pend)
    /\ msgs' = Tail(msgs)
    /\ UNCHANGED <<shellVars, sync, highlightingDuration, clock, discarded, provVars,
                   consumed, wndLive, timers>>

\* The delayed batch as other threads see it, in its two locked regions.
\* First the delayed queue is drained under its lock; the UI thread is then
\* between the two regions (the BatchTransfer entry at the head of its work,
\* which also notes how many actions were pending at that point).
BatchDrain ==
    /\ wndLive
    /\ msgs # <<>>
    /\ GetMessage(msgs).type = "BatchTask"
    /\ LET u == Drain(UI, postQueue)
       IN  /\ Applied(u)
           /\ msgs' = <<Msg("BatchTransfer", NoEnt, Len(u.pend), 0)>> \o Tail(msgs)
    /\ postQueue' = <<>>
    /\ UNCHANGED <<shellVars, sync, highlightingDuration, clock, discarded, provVars,
                   consumed, wndLive, timers>>

\* Then the pending buffer is moved into the delayed queue under both locks.
BatchTransfer ==
    /\ wndLive
    /\ msgs # <<>>
    /\ GetMessage(msgs).type = "BatchTransfer"
    /\ postQueue' = TransferPending(postQueue, postQueuePending)
    /\ postQueuePending' = <<>>
    /\ msgs' = Tail(msgs)
    /\ UNCHANGED <<shellVars, sync, heap, highlightingDuration, clock, discarded,
                   provVars, refcount, consumed, wndLive, items,
                   stateHighlighting, queue, timers>>

\* ------------------------------------------------------- command handlers
PhReferenceObjects(rc, S) == [e \in Ents |-> IF e \in S THEN rc[e] + 1 ELSE rc[e]]
PhDereferenceObjects(rc, S) == [e \in Ents |-> IF e \in S THEN rc[e] - 1 ELSE rc[e]]

\* The commands whose handler hands the selected items to an operation that
\* runs a dialog, with the selections each works on: every selected
\* process for ID_PROCESS_TERMINATE (PhpGetSelectedProcesses), the one
\* selected process or service for the others (PhpGetSelectedProcess,
\* PhpGetSelectedService return NULL when there is none, and the handler
\* then does nothing).
DialogCommands == {"ID_PROCESS_TERMINATE", "ID_PROCESS_TERMINATOR",
                   "ID_SERVICE_PROPERTIES"}

Selectable(T) == {e \in T : Rows(e) # {}}

Selections(id) ==
    CASE id = "ID_PROCESS_TERMINATE" -> SUBSET Selectable(Procs)
      [] id = "ID_PROCESS_TERMINATOR" -> {{e} : e \in Selectable(Procs)}
      [] id = "ID_SERVICE_PROPERTIES" -> {{e} : e \in Selectable(Svcs)}

\* Mutant: the handler calls the operation on the list's reference alone.
CommandReference_None(rc, id, S) == rc

\* PhReferenceObjects(processes, numberOfProcesses) /
\* PhReferenceObject(item) before the operation.
CommandReference(rc, id, S) == PhReferenceObjects(rc, S)

\* PhDereferenceObjects / PhDereferenceObject after it.
CommandDereference(rc, id, S) == PhDereferenceObjects(rc, S)

commandRest == <<PhMainWndExiting, saved, menu, sync, heap,
                 highlightingDuration, clock, discarded, provVars, msgs,
                 consumed, wndLive, hlVars, timers>>

\* WM_COMMAND for one of the dialog commands: the handler references the
\* selection and enters the operation (PhUiTerminateProcesses,
\* PhShowProcessTerminatorDialog, PhShowServiceProperties), which runs a
\* message loop of its own: the window goes on handling messages until the
\* operation returns.
CommandBegin(id, S) ==
    /\ wndLive
    /\ command = NoCommand
    /\ S \in Selections(id)
    /\ refcount' = CommandReference(refcount, id, S)
    /\ command' = [id |-> id, ents |-> S]
    /\ UNCHANGED <<log, commandRest>>

\* The operation returns and the handler dereferences what it referenced.
CommandEnd ==
    /\ command # NoCommand
    /\ refcount' = CommandDereference(refcount, command.id, command.ents)
    /\ log' = [log EXCEPT !.command = command.id]
    /\ command' = NoCommand
    /\ UNCHANGED commandRest

\* WM_COMMAND, ID_PROCESS_SEARCHONLINE: the name of the selected process is
\* read and handed to PhSearchOnlineString; the item is not referenced.
SearchOnline ==
    /\ wndLive
    /\ command = NoCommand
    /\ Selectable(Procs) # {}
    /\ log' = [log EXCEPT !.command = "ID_PROCESS_SEARCHONLINE"]
    /\ UNCHANGED <<command, refcount, commandRest>>

\* ---------------------------------------------------------- early shutdown
\* What the shutdown handlers of the window procedure work on.  log records
\* the last early-shutdown message handled, the last answer to
\* WM_PH_ACTIVATE and how the last elevated relaunch went.
Shell == [exiting |-> PhMainWndExiting, saved |-> saved, log |-> log,
          live |-> wndLive]

PhpSaveAllSettings(sh) == [sh EXCEPT !.saved = @ + 1]

\* Mutant: the flag is raised without saving.
PhpPrepareForEarlyShutdown_NoSave(sh) ==
    [sh EXCEPT !.exiting = TRUE, !.log.shutdown = "prepare"]

PhpPrepareForEarlyShutdown(sh) ==
    [PhpSaveAllSettings(sh) EXCEPT !.exiting = TRUE,
                                   !.log.shutdown = "prepare"]

\* Mutant: the cancel leaves the flag as it is.
PhpCancelEarlyShutdown_Keep(sh) == [sh EXCEPT !.log.shutdown = "cancel"]

PhpCancelEarlyShutdown(sh) ==
    [sh EXCEPT !.exiting = FALSE, !.log.shutdown = "cancel"]

\* Mutant: WM_DESTROY saves whatever the flag says.
PhMainWndOnDestroy_AlwaysSave(sh) ==
    [PhpSaveAllSettings(sh) EXCEPT !.live = FALSE]

\* PhMainWndProc, WM_DESTROY: the settings are saved unless the window is
\* exiting early; PostQuitMessage ends the message loop.
PhMainWndOnDestroy(sh) ==
    [(IF ~sh.exiting THEN PhpSaveAllSettings(sh) ELSE sh) EXCEPT !.live = FALSE]

\* PhMainWndProc, WM_PH_ACTIVATE: the value returned.
PhMainWndOnActivate(sh) ==
    [sh EXCEPT !.log.activate =
        IF ~sh.exiting THEN "PH_ACTIVATE_REPLY" ELSE "0"]

\* Mutant: the window is destroyed whether or not the relaunch started.
PhMainWndOnShowDetailsForAllProcesses_Destroy(sh, ok) ==
    [PhMainWndOnDestroy(PhpPrepareForEarlyShutdown(sh))
        EXCEPT !.log.relaunch = IF ok THEN "started" ELSE "failed"]

\* PhMainWndProc, ID_HACKER_SHOWDETAILSFORALLPROCESSES: ok is what
\* PhShellExecuteEx returns.  ProcessHacker_PrepareForEarlyShutdown,
\* ProcessHacker_Destroy and ProcessHacker_CancelEarlyShutdown send their
\* message to the window, which handles it before the call returns.
PhMainWndOnShowDetailsForAllProcesses(sh, ok) ==
    LET sh1 == PhpPrepareForEarlyShutdown(sh)
    IN  IF ok
        THEN [PhMainWndOnDestroy(sh1) EXCEPT !.log.relaunch = "started"]
        ELSE [PhpCancelEarlyShutdown(sh1) EXCEPT !.log.relaunch = "failed"]

\* DestroyWindow discards the messages still posted to the window.
ShellApplied(sh) ==
    /\ PhMainWndExiting' = sh.exiting
    /\ saved' = sh.saved
    /\ log' = sh.log
    /\ wndLive' = sh.live
    /\ msgs' = IF sh.live THEN msgs ELSE <<>>

shellRest == <<command, menu, sync, heap, highlightingDuration, clock,
               discarded, provVars, refcount, consumed, hlVars, timers>>

\* Room for one more save (the model's bound on the count).
SavesRoom == saved < MaxSaves

\* WM_PH_ACTIVATE from a second instance.
WmActivate ==
    /\ wndLive
    /\ ShellApplied(PhMainWndOnActivate(Shell))
    /\ UNCHANGED shellRest

\* WM_PH_SAVE_ALL_SETTINGS.
WmSaveAllSettings ==
    /\ wndLive
    /\ SavesRoom
    /\ ShellApplied(PhpSaveAllSettings(Shell))
    /\ UNCHANGED shellRest

\* WM_PH_PREPARE_FOR_EARLY_SHUTDOWN.
WmPrepareForEarlyShutdown ==
    /\ wndLive
    /\ SavesRoom
    /\ ShellApplied(PhpPrepareForEarlyShutdown(Shell))
    /\ UNCHANGED shellRest

\* WM_PH_CANCEL_EARLY_SHUTDOWN.
WmCancelEarlyShutdown ==
    /\ wndLive
    /\ ShellApplied(PhpCancelEarlyShutdown(Shell))
    /\ UNCHANGED shellRest

\* WM_COMMAND, ID_HACKER_SHOWDETAILSFORALLPROCESSES.
ShowDetailsForAllProcesses(ok) ==
    /\ wndLive
    /\ SavesRoom
    /\ ShellApplied(PhMainWndOnShowDetailsForAllProcesses(Shell, ok))
    /\ UNCHANGED shellRest

\* WM_PH_DESTROY is posted to the window (ProcessHacker_Destroy).
PostDestroy ==
    /\ wndLive
    /\ HasRoom
    /\ \A i \in 1..Len(msgs) : msgs[i].type # "Destroy"
    /\ msgs' = PostMessage(msgs, Msg("Destroy", NoEnt, 0, 0))
    /\ UNCHANGED <<shellVars, sync, heap, highlightingDuration, clock, discarded,
                   provVars, refcount, consumed, wndLive, hlVars, timers>>

\* WM_PH_DESTROY -> DestroyWindow -> WM_DESTROY -> PostQuitMessage: the window
\* is gone, DestroyWindow discards the messages still posted to it, and the
\* message loop ends.
WmDestroy ==
    /\ wndLive
    /\ msgs # <<>>
    /\ GetMessage(msgs).type = "Destroy"
    /\ ShellApplied(PhMainWndOnDestroy(Shell))
    /\ UNCHANGED shellRest

\* HighlightingContext.StateHighlighting is set from the options.
SetStateHighlighting ==
    /\ stateHighlighting' = ~stateHighlighting
    /\ UNCHANGED <<shellVars, sync, heap, highlightingDuration, clock, discarded,
                   provVars, refcount, msgs, consumed, wndLive, items, queue,
                   postQueue, postQueuePending, timers>>

\* The durations the options can set: the initial one and a longer one.
Durations == {Duration, Duration + 1}

\* Mutant: setting the duration re-arms the timers that are armed.
SetHighlightingDuration_Rearm(d) ==
    /\ d # highlightingDuration
    /\ highlightingDuration' = d
    /\ timers' = [k \in 1..Len(timers) |-> now + d]
    /\ UNCHANGED <<shellVars, sync, heap, clock, discarded, provVars, refcount, msgs,
                   consumed, wndLive, hlVars>>

\* HighlightingContext.HighlightingDuration is set from the options (the
\* HighlightingDurationChanged event has no subscriber here).
SetHighlightingDuration(d) ==
    /\ d # highlightingDuration
    /\ highlightingDuration' = d
    /\ UNCHANGED <<shellVars, sync, heap, clock, discarded, provVars, refcount, msgs,
                   consumed, wndLive, hlVars, timers>>

\* ------------------------------------------- the highlighting context alone
\* Room for one more queued highlight action, n allowed.
Room(n) == Len(queue) + Len(postQueue) + Len(postQueuePending) < n

ActsRoom == Room(MaxActs)

\* Tick() is called on the context (ExtendedListView_Tick), from any thread.
CallTick ==
    /\ HasRoom
    /\ msgs' = Tick(msgs)
    /\ lastTick' = now
    /\ discarded' = IF wndLive THEN discarded ELSE discarded \cup {"Tick"}
    /\ UNCHANGED <<shellVars, sync, heap, highlightingDuration, now, provVars, refcount,
                   consumed, wndLive, hlVars, timers>>

\* A HighlightedListViewItem is constructed and added to the list.
NewCalled(e) ==
    /\ e \in scenario
    /\ Len(items) < MaxItems
    /\ Applied(NewItem(UI, e))
    /\ UNCHANGED <<shellVars, sync, highlightingDuration, clock, discarded, provVars,
                   msgs, consumed, wndLive, postQueue, timers>>

\* Remove() is called on a row of the list.
RemoveCalled(i) ==
    /\ i \in 1..Len(items)
    /\ items[i].inList
    /\ Applied(ItemRemove(UI, i))
    /\ UNCHANGED <<shellVars, sync, highlightingDuration, clock, discarded, provVars,
                   msgs, consumed, wndLive, postQueue, timers>>

\* SetTemporaryState(st) is called on a row of the list.
SetTemporaryStateCalled(i, st) ==
    /\ i \in 1..Len(items)
    /\ items[i].inList
    /\ Applied(SetTemporaryState(UI, i, st))
    /\ UNCHANGED <<shellVars, sync, highlightingDuration, clock, discarded, provVars,
                   msgs, consumed, wndLive, postQueue, timers>>

\* The values NormalColor is given: SystemColors.Window, which an item
\* starts with, and one other colour.
NormalColors == {"Window", "Custom"}

\* HighlightedListViewItem.NormalColor = c on item i.  An item's colour
\* "Normal" stands for BackColor being the item's _normalColor; "New" and
\* "Removed" are the two tints of HighlightingContext.Colors.
SetNormalColor(u, i, c) ==
    [u EXCEPT !.its[i].normalColor = c,
              !.its[i].color = IF u.its[i].state = "Normal" THEN "Normal" ELSE @]

NormalColorSet(i, c) ==
    /\ i \in 1..Len(items)
    /\ items[i].inList
    /\ Applied(SetNormalColor(UI, i, c))
    /\ UNCHANGED <<shellVars, sync, highlightingDuration, clock, discarded, provVars,
                   msgs, consumed, wndLive, postQueue, timers>>

\* The three calls while there is room for the action they queue.
ItemCreated(e) == ActsRoom /\ NewCalled(e)
ItemRemoved(i) == ActsRoom /\ RemoveCalled(i)
ItemTemporaryState(i, st) == ActsRoom /\ SetTemporaryStateCalled(i, st)

\* ------------------------------------ the two batches, statement by statement
\* The locks the UI thread holds: it is inside lock (_queue) while the entry
\* at the head of its work is TickDrain, inside lock (_postQueue) while it
\* is BatchLocked.  Every other lock region of the context is a single
\* enqueue or a queue-to-queue move and is one step.
LocksHeld ==
    IF wndLive /\ msgs # <<>> /\ GetMessage(msgs).type = "TickDrain"
    THEN {"_queue"}
    ELSE IF wndLive /\ msgs # <<>> /\ GetMessage(msgs).type = "BatchLocked"
         THEN {"_postQueue"}
         ELSE {}

\* Mutant: the oldest action is read but left in the queue.
Dequeue_Peek(q) == [head |-> Head(q), rest |-> q]

\* Mutant: the newest action is taken from the queue.
Dequeue_Newest(q) == [head |-> q[Len(q)], rest |-> SubSeq(q, 1, Len(q) - 1)]

\* Queue.Dequeue(): the oldest element, and the queue without it.
Dequeue(q) == [head |-> Head(q), rest |-> Tail(q)]

\* The Tick task begins: BeginUpdate, lock (_queue) is entered.
TickLock ==
    /\ wndLive
    /\ msgs # <<>>
    /\ GetMessage(msgs).type = "TickTask"
    /\ msgs' = <<Msg("TickDrain", NoEnt, 0, 0)>> \o Tail(msgs)
    /\ UNCHANGED <<shellVars, sync, heap, highlightingDuration, clock, discarded,
                   provVars, refcount, consumed, wndLive, hlVars, timers>>

\* One round of the loop inside lock (_queue): _queue.Dequeue().Invoke().
TickInvoke ==
    /\ wndLive
    /\ msgs # <<>>
    /\ GetMessage(msgs).type = "TickDrain"
    /\ queue # <<>>
    /\ LET d == Dequeue(queue)
       IN  Applied(Invoke([UI EXCEPT !.q = d.rest], d.head))
    /\ UNCHANGED <<shellVars, sync, highlightingDuration, clock, discarded, provVars,
                   msgs, consumed, wndLive, postQueue, timers>>

\* The queue is empty: lock (_queue) is left, EndUpdate, the timer is
\* created and the task is over.
TickUnlock ==
    /\ wndLive
    /\ msgs # <<>>
    /\ GetMessage(msgs).type = "TickDrain"
    /\ queue = <<>>
    /\ timers' = NewTimer(timers)
    /\ msgs' = Tail(msgs)
    /\ UNCHANGED <<shellVars, sync, heap, highlightingDuration, clock, discarded,
                   provVars, refcount, consumed, wndLive, hlVars>>

\* The delayed batch begins: BeginUpdate, lock (_postQueue) is entered.
BatchLock ==
    /\ wndLive
    /\ msgs # <<>>
    /\ GetMessage(msgs).type = "BatchTask"
    /\ msgs' = <<Msg("BatchLocked", NoEnt, 0, 0)>> \o Tail(msgs)
    /\ UNCHANGED <<shellVars, sync, heap, highlightingDuration, clock, discarded,
                   provVars, refcount, consumed, wndLive, hlVars, timers>>

\* One round of the loop inside lock (_postQueue):
\* _postQueue.Dequeue().Invoke().
BatchInvoke ==
    /\ wndLive
    /\ msgs # <<>>
    /\ GetMessage(msgs).type = "BatchLocked"
    /\ postQueue # <<>>
    /\ LET d == Dequeue(postQueue)
       IN  /\ Applied(Invoke(UI, d.head))
           /\ postQueue' = d.rest
    /\ UNCHANGED <<shellVars, sync, highlightingDuration, clock, discarded, provVars,
                   msgs, consumed, wndLive, timers>>

\* The delayed queue is empty: lock (_postQueue) is left, EndUpdate; the
\* transfer of the pending buffer is what the UI thread does next.
BatchUnlock ==
    /\ wndLive
    /\ msgs # <<>>
    /\ GetMessage(msgs).type = "BatchLocked"
    /\ postQueue = <<>>
    /\ msgs' = <<Msg("BatchTransfer", NoEnt, Len(postQueuePending), 0)>>
                   \o Tail(msgs)
    /\ UNCHANGED <<shellVars, sync, heap, highlightingDuration, clock, discarded,
                   provVars, refcount, consumed, wndLive, hlVars, timers>>

\* The calls made on other threads while the UI thread is in a batch: a
\* call that goes through Enqueue has to enter lock (_queue) and waits while
\* the UI thread is inside it; EnqueuePost enters lock (_postQueuePending),
\* which the UI thread never holds across steps.
ThreadCreated(e) == Room(MaxStepActs) /\ NewCalled(e)

ThreadRemoved(i) ==
    /\ Room(MaxStepActs)
    /\ stateHighlighting => "_queue" \notin LocksHeld
    /\ RemoveCalled(i)

ThreadTemporaryState(i, st) ==
    /\ Room(MaxStepActs)
    /\ "_queue" \notin LocksHeld
    /\ SetTemporaryStateCalled(i, st)

\* --------------------------------- the monitors, lock statement by statement
\* What the lock-level steps never touch.
restVars == <<shellVars, heap, highlightingDuration, clock, discarded, provVars, refcount,
              consumed, wndLive, stateHighlighting>>

Owner(l) == sync.owner[l]

\* The lock statement the UI thread stands in front of.
UiWants ==
    CASE sync.ui = "tickWantsQueue" -> "_queue"
      [] sync.ui = "tickWantsPending" -> "_postQueuePending"
      [] sync.ui = "batchWantsPost" -> "_postQueue"
      [] sync.ui = "xferWantsPending" -> "_postQueuePending"
      [] sync.ui = "xferWantsPost" -> "_postQueue"
      [] OTHER -> "none"

\* The lock statement the worker thread stands in front of.
WorkerWants ==
    CASE sync.worker = "wantsQueue" -> "_queue"
      [] sync.worker = "wantsPending" -> "_postQueuePending"
      [] OTHER -> "none"

\* The UI thread takes the next task posted to it.
UiBegin ==
    /\ wndLive
    /\ sync.ui = "idle"
    /\ msgs # <<>>
    /\ GetMessage(msgs).type \in {"TickTask", "BatchTask"}
    /\ sync' = [sync EXCEPT !.ui = IF GetMessage(msgs).type = "TickTask"
                                   THEN "tickWantsQueue" ELSE "batchWantsPost"]
    /\ msgs' = Tail(msgs)
    /\ UNCHANGED <<restVars, items, queue, postQueue, postQueuePending, timers>>

\* Tick task: lock (this._queue) is entered.
UiEnterQueue ==
    /\ sync.ui = "tickWantsQueue"
    /\ Owner("_queue") = "none"
    /\ sync' = [sync EXCEPT !.owner["_queue"] = "ui", !.ui = "tickLoop"]
    /\ UNCHANGED <<restVars, msgs, items, queue, postQueue, postQueuePending,
                   timers>>

\* Tick task, inside lock (_queue): an action is dequeued and invoked; it
\* sets the item's colour (and state) and then calls EnqueuePost, which
\* stands in front of lock (_postQueuePending).
UiInvokeImmediate ==
    /\ sync.ui = "tickLoop"
    /\ queue # <<>>
    /\ LET d == Dequeue(queue)
       IN  /\ queue' = d.rest
           /\ items' = Invoke(UI, d.head).its
           /\ sync' = [sync EXCEPT !.ui = "tickWantsPending",
                                   !.uiAct = Invoke(UI, d.head).pend[
                                                 Len(postQueuePending) + 1]]
    /\ UNCHANGED <<restVars, msgs, postQueue, postQueuePending, timers>>

\* EnqueuePost on the UI thread, still inside lock (_queue):
\* lock (_postQueuePending) _postQueuePending.Enqueue(method).
UiEnqueuePost ==
    /\ sync.ui = "tickWantsPending"
    /\ Owner("_postQueuePending") = "none"
    /\ postQueuePending' = Append(postQueuePending, sync.uiAct)
    /\ sync' = [sync EXCEPT !.ui = "tickLoop", !.uiAct = NoAct]
    /\ UNCHANGED <<restVars, msgs, items, queue, postQueue, timers>>

\* Tick task: the queue is empty, lock (_queue) is left, the timer created.
UiLeaveQueue ==
    /\ sync.ui = "tickLoop"
    /\ queue = <<>>
    /\ sync' = [sync EXCEPT !.owner["_queue"] = "none", !.ui = "idle"]
    /\ timers' = NewTimer(timers)
    /\ UNCHANGED <<restVars, msgs, items, queue, postQueue, postQueuePending>>

\* Delayed batch: lock (this._postQueue) is entered.
UiEnterPostQueue ==
    /\ sync.ui = "batchWantsPost"
    /\ Owner("_postQueue") = "none"
    /\ sync' = [sync EXCEPT !.owner["_postQueue"] = "ui", !.ui = "batchLoop"]
    /\ UNCHANGED <<restVars, msgs, items, queue, postQueue, postQueuePending,
                   timers>>

\* Delayed batch, inside lock (_postQueue): an action is dequeued and
\* invoked; the decay and the base removal enter no lock.
UiInvokeDelayed ==
    /\ sync.ui = "batchLoop"
    /\ postQueue # <<>>
    /\ LET d == Dequeue(postQueue)
       IN  /\ postQueue' = d.rest
           /\ items' = Invoke(UI, d.head).its
    /\ UNCHANGED <<restVars, sync, msgs, queue, postQueuePending, timers>>

\* Delayed batch: the delayed queue is empty, lock (_postQueue) is left; the
\* transfer stands in front of lock (_postQueuePending).
UiLeavePostQueue ==
    /\ sync.ui = "batchLoop"
    /\ postQueue = <<>>
    /\ sync' = [sync EXCEPT !.owner["_postQueue"] = "none",
                            !.ui = "xferWantsPending"]
    /\ UNCHANGED <<restVars, msgs, items, queue, postQueue, postQueuePending,
                   timers>>

\* Transfer: lock (_postQueuePending) is entered; lock (_postQueue) is next.
UiEnterPending ==
    /\ sync.ui = "xferWantsPending"
    /\ Owner("_postQueuePending") = "none"
    /\ sync' = [sync EXCEPT !.owner["_postQueuePending"] = "ui",
                            !.ui = "xferWantsPost"]
    /\ UNCHANGED <<restVars, msgs, items, queue, postQueue, postQueuePending,
                   timers>>

\* Transfer: lock (_postQueue) is entered inside lock (_postQueuePending),
\* the pending actions are moved, both locks are left.
UiTransfer ==
    /\ sync.ui = "xferWantsPost"
    /\ Owner("_postQueue") = "none"
    /\ postQueue' = TransferPending(postQueue, postQueuePending)
    /\ postQueuePending' = <<>>
    /\ sync' = [sync EXCEPT !.owner["_postQueuePending"] = "none",
                            !.ui = "idle"]
    /\ UNCHANGED <<restVars, msgs, items, queue, timers>>

\* A worker thread calls Remove() on a row: Enqueue stands in front of
\* lock (_queue) with the removal tint.
WorkerRemove(i) ==
    /\ sync.worker = "idle"
    /\ Room(MaxStepActs)
    /\ stateHighlighting
    /\ i \in 1..Len(items)
    /\ items[i].inList
    /\ sync' = [sync EXCEPT !.worker = "wantsQueue",
                            !.workerAct = ItemRemove(UI, i).q[Len(queue) + 1]]
    /\ UNCHANGED <<restVars, msgs, items, queue, postQueue, postQueuePending,
                   timers>>

\* A worker thread constructs a row: the New colour and state are set and
\* EnqueuePost stands in front of lock (_postQueuePending) with the decay.
WorkerNew(e) ==
    /\ sync.worker = "idle"
    /\ Room(MaxStepActs)
    /\ stateHighlighting
    /\ e \in scenario
    /\ Len(items) < MaxLockItems
    /\ items' = NewItem(UI, e).its
    /\ sync' = [sync EXCEPT !.worker = "wantsPending",
                            !.workerAct = NewItem(UI, e).pend[
                                              Len(postQueuePending) + 1]]
    /\ UNCHANGED <<restVars, msgs, queue, postQueue, postQueuePending, timers>>

\* Tick() is called once the cycle of the Tick before it is over: no task
\* posted, no timer armed.  (Tasks of overlapping cycles run one after the
\* other on the UI thread and add no lock state.)
CycleTick == msgs = <<>> /\ timers = <<>> /\ CallTick

\* Mutant: inside lock (_postQueuePending) EnqueuePost goes on to
\* lock (_queue).
EnqueuePostEntered_ThenQueue(w) == "wantsQueue"

\* Where the worker is once it has entered the lock of EnqueuePost: inside
\* it, with the one Enqueue of its body left to do.
EnqueuePostEntered(w) == "holdsPending"

\* The worker enters the lock it stands in front of.
WorkerEnter ==
    /\ WorkerWants # "none"
    /\ Owner(WorkerWants) = "none"
    /\ sync' = [sync EXCEPT !.owner[WorkerWants] = "worker",
                            !.worker = IF WorkerWants = "_queue"
                                       THEN "holdsQueue"
                                       ELSE EnqueuePostEntered(sync.worker)]
    /\ UNCHANGED <<restVars, msgs, items, queue, postQueue, postQueuePending,
                   timers>>

\* The worker does the Enqueue of the method it is in (Enqueue for a
\* removal tint, EnqueuePost for a decay) and leaves the locks it owns.
WorkerLeave ==
    /\ sync.worker \in {"holdsQueue", "holdsPending"}
    /\ queue' = IF sync.workerAct.op = "TintRemoved"
                THEN Append(queue, sync.workerAct) ELSE queue
    /\ postQueuePending' = IF sync.workerAct.op = "SetNormal"
                           THEN Append(postQueuePending, sync.workerAct)
                           ELSE postQueuePending
    /\ sync' = [sync EXCEPT
                   !.owner = [l \in Locks |->
                                 IF sync.owner[l] = "worker" THEN "none"
                                 ELSE sync.owner[l]],
                   !.worker = "idle", !.workerAct = NoAct]
    /\ UNCHANGED <<restVars, msgs, items, postQueue, timers>>

\* Time passes: not past a timer that is due, not while the UI thread has
\* work posted to it, and not past the provider's next run (which calls
\* Tick()).
TimeAdvance ==
    /\ now < MaxTime
    /\ msgs = <<>>
    /\ \A k \in 1..Len(timers) : timers[k] > now
    /\ now + 1 - lastTick <= TickPeriod
    /\ now' = now + 1
    /\ UNCHANGED <<shellVars, sync, heap, highlightingDuration, lastTick, discarded,
                   provVars, refcount, msgs, consumed, wndLive, hlVars,
                   timers>>

Next ==
    \/ \E e \in Ents : ProviderAdd(e)
    \/ \E e \in Ents : ProviderModify(e)
    \/ \E e \in Ents : ProviderRemove(e)
    \/ ProviderRunEnd
    \/ WmEntity
    \/ WmServicesUpdated
    \/ TickTask
    \/ TimerFire
    \/ BatchTask
    \/ PostDestroy
    \/ WmDestroy
    \/ SetStateHighlighting

Spec == Init /\ [][Next]_vars

\* The UI thread handles every message it can get; timers fire; the service
\* provider keeps ending runs.
Fairness ==
    /\ WF_vars(WmEntity)
    /\ WF_vars(WmServicesUpdated)
    /\ WF_vars(TickTask)
    /\ WF_vars(BatchTask)
    /\ WF_vars(WmDestroy)
    /\ WF_vars(TimerFire)
    /\ WF_vars(ProviderRunEnd)

\* One entity per run, every action, fair scheduling.
InitSingle == scenario \in SingleScenarios /\ Start

FairSpec == InitSingle /\ [][Next]_vars /\ Fairness

\* The concurrent-add scenario: the process provider and the service
\* provider each publish Added for their entity while the UI thread keeps
\* handling messages; nothing is removed and the window stays.
InitAdd == scenario = PairScenario /\ Start

NextAdd ==
    \/ \E e \in Ents : ProviderAdd(e)
    \/ ProviderRunEnd
    \/ WmEntity
    \/ WmServicesUpdated
    \/ TickTask
    \/ TimerFire
    \/ BatchTask
    \/ SetStateHighlighting

\* A producer's publish never blocks; it is only the model's bound on the
\* queue that can switch ProviderAdd off for a while, hence strong fairness.
AddSpec ==
    /\ InitAdd
    /\ [][NextAdd]_vars
    /\ Fairness
    /\ \A e \in Ents : SF_vars(ProviderAdd(e))

\* The main window with one entity per run, where the Added event may be
\* lost on its way: the Modified and Removed events that follow it then name
\* an entity the window shows no row for.
NextLoss ==
    \/ Next
    \/ \E e \in Ents : ProviderAddLost(e)

LossSpec == InitSingle /\ [][NextLoss]_vars

\* The highlighting context with its list, driven directly and on the
\* clock: rows of one service are created, removed and put in temporary
\* states, Tick() is called at least once per provider interval, timers fire
\* when due, the UI thread runs the work posted to it before time moves on.
InitHl == scenario = {"s1"} /\ Start

NextHl ==
    \/ \E e \in Ents : ItemCreated(e)
    \/ \E i \in 1..MaxItems : ItemRemoved(i)
    \/ \E i \in 1..MaxItems : \E st \in TemporaryStates : ItemTemporaryState(i, st)
    \/ CallTick
    \/ TickTask
    \/ TimerDue
    \/ BatchDrain
    \/ BatchTransfer
    \/ PostDestroy
    \/ WmDestroy
    \/ SetStateHighlighting
    \/ TimeAdvance

HlSpec == InitHl /\ [][NextHl]_vars

\* The highlighting context of a list that stays alive, on the clock, with
\* the flag and the duration changed from the options while it runs; rows
\* are created and removed.
NextCfg ==
    \/ \E e \in Ents : ItemCreated(e)
    \/ \E i \in 1..MaxItems : ItemRemoved(i)
    \/ CallTick
    \/ TickTask
    \/ TimerDue
    \/ BatchTask
    \/ SetStateHighlighting
    \/ \E d \in Durations : SetHighlightingDuration(d)
    \/ TimeAdvance

CfgSpec == InitHl /\ [][NextCfg]_vars

\* The highlighting context of a list that stays alive, its two batches
\* taken statement by statement, with calls from other threads in between.
NextStep ==
    \/ \E e \in Ents : ThreadCreated(e)
    \/ \E i \in 1..MaxItems : ThreadRemoved(i)
    \/ \E i \in 1..MaxItems : \E st \in TemporaryStates : ThreadTemporaryState(i, st)
    \/ CallTick
    \/ TickLock
    \/ TickInvoke
    \/ TickUnlock
    \/ TimerFire
    \/ BatchLock
    \/ BatchInvoke
    \/ BatchUnlock
    \/ BatchTransfer
    \/ SetStateHighlighting

StepSpec == InitHl /\ [][NextStep]_vars

\* The highlighting context of a list that stays alive with highlighting
\* on, the UI thread and one worker thread taken lock statement by lock
\* statement.
NextLock ==
    \/ \E e \in Ents : WorkerNew(e)
    \/ \E i \in 1..MaxLockItems : WorkerRemove(i)
    \/ WorkerEnter
    \/ WorkerLeave
    \/ CycleTick
    \/ TimerFire
    \/ UiBegin
    \/ UiEnterQueue
    \/ UiInvokeImmediate
    \/ UiEnqueuePost
    \/ UiLeaveQueue
    \/ UiEnterPostQueue
    \/ UiInvokeDelayed
    \/ UiLeavePostQueue
    \/ UiEnterPending
    \/ UiTransfer

MonitorSpec == InitHl /\ [][NextLock]_vars

\* The highlighting context of a list that stays alive, whose rows are
\* created, removed, put in temporary states and given normal colours.
NextColor ==
    \/ \E e \in Ents : ItemCreated(e)
    \/ \E i \in 1..MaxItems : ItemRemoved(i)
    \/ \E i \in 1..MaxItems : \E st \in TemporaryStates : ItemTemporaryState(i, st)
    \/ \E i \in 1..MaxItems : \E c \in NormalColors : NormalColorSet(i, c)
    \/ CallTick
    \/ TickTask
    \/ TimerFire
    \/ BatchTask
    \/ SetStateHighlighting

ColorSpec == InitHl /\ [][NextColor]_vars

\* The main window with one entity per run and the commands of its context
\* menus: entities come and go while a command's operation is running.
NextCommand ==
    \/ \E e \in Ents : ProviderAdd(e)
    \/ \E e \in Ents : ProviderRemove(e)
    \/ ProviderRunEnd
    \/ WmEntity
    \/ WmServicesUpdated
    \/ TickTask
    \/ TimerFire
    \/ BatchTask
    \/ SetStateHighlighting
    \/ \E id \in DialogCommands : \E S \in SUBSET Ents : CommandBegin(id, S)
    \/ CommandEnd
    \/ SearchOnline

CommandSpec == InitSingle /\ [][NextCommand]_vars

\* The main window's way out: activation requests, the early-shutdown
\* messages, the elevated relaunch, and the destroy message, in any order.
NextShutdown ==
    \/ WmActivate
    \/ WmSaveAllSettings
    \/ WmPrepareForEarlyShutdown
    \/ WmCancelEarlyShutdown
    \/ \E ok \in BOOLEAN : ShowDetailsForAllProcesses(ok)
    \/ PostDestroy
    \/ WmDestroy

ShutdownSpec == InitHl /\ [][NextShutdown]_vars

\* The service context menu, built for every selection: the number of
\* services selected, and the state and accepted controls of the first.
InitMenu ==
    /\ scenario = {"s1"}
    /\ StartWnd
    /\ menu \in {MenuFor(n, st, c) : n \in 0..MaxServices,
                                     st \in ServiceStates, c \in ControlMasks}

NextMenu == ServiceMenuInitialized

MenuSpec == InitMenu /\ [][NextMenu]_vars

TypeOK ==
    /\ \A e \in Ents : refcount[e] >= 0
    /\ \A k \in 1..Len(timers) : timers[k] >= Duration
    /\ now \in 0..MaxTime
    /\ lastTick \in 0..now
    /\ discarded \subseteq {"Tick", "Timer"}
    /\ wndLive => discarded = {}
    /\ heap.live \cup heap.freed \subseteq Svcs \X (1..(MaxMods + 1))
    /\ highlightingDuration >= Duration

\* ================================================================ claims
\* Every event the provider published for e has been handled, Removed
\* included.
RemovedConsumed(e) == phase[e] = "retired" /\ consumed[e] = Published(e)

\* The step handles an entity message for e of one of the types T.
Consumes(e, T) ==
    /\ wndLive
    /\ msgs # <<>>
    /\ Head(msgs).ent = e
    /\ Head(msgs).type \in T
    /\ consumed'[e] = consumed[e] + 1

\* References the provider itself holds on e.
ProviderRefs(e) == IF phase[e] = "live" THEN 1 ELSE 0

\* C1: the reference count of an entity is positive while a posted event
\* that points at it (Added, Modified, Removed) is not yet handled, so no
\* handler reads an entity whose count has reached zero.
C1_RefHeldWhileInFlight ==
    \A i \in 1..Len(msgs) : msgs[i].ent # NoEnt => refcount[msgs[i].ent] > 0

\* C1 witness: a Removed event is still posted after the provider dropped its
\* own reference; only the reference taken for Added keeps the item alive.
C1_Witness ==
    \E i \in 1..Len(msgs) :
        /\ msgs[i].type \in {"ProcessRemoved", "ServiceRemoved"}
        /\ phase[msgs[i].ent] = "retired"
        /\ refcount[msgs[i].ent] = 1

\* C2 (as claimed): the displayed collection never holds more than one row
\* for an identity key.
C2_OneRowPerKey ==
    \A e \in Ents : Cardinality(RowsOfKey(KeyOf(e))) <= 1

\* C3 (as claimed): once Removed for an entity is handled, its row is
\* eventually gone.
C3_RemovedEventuallyGone ==
    \A e \in Ents : RemovedConsumed(e) ~> (Rows(e) = {})

\* C3 (amended): once Removed for an entity is handled, its row is eventually
\* gone or the window has been destroyed (the pending batch is discarded).
C3_RemovedGoneOrTornDown ==
    \A e \in Ents : RemovedConsumed(e) ~> (Rows(e) = {} \/ ~wndLive)

\* C3 witness: Removed was handled with highlighting on and the row, tinted
\* for removal, still waits for its delayed BaseRemove.
C3_Witness ==
    \E e \in Ents : \E i \in Rows(e) :
        /\ RemovedConsumed(e)
        /\ items[i].color = "Removed"
        /\ wndLive

\* C4: over an entity's lifetime releases equal acquires: the count never
\* goes below zero, and once the provider has retired the entity, all its
\* events are handled and its row is gone, the count is zero.
C4_ReleasesEqualAcquires ==
    \A e \in Ents :
        /\ refcount[e] >= 0
        /\ (RemovedConsumed(e) /\ Rows(e) = {}) => refcount[e] = 0

\* C4 witness: an entity whose row was created and deleted and whose events
\* are all handled.
C4_Witness ==
    \E i \in 1..Len(items) :
        /\ ~items[i].inList
        /\ RemovedConsumed(items[i].ent)
        /\ refcount[items[i].ent] = 0

\* A step posts a new event for e.
Posts(e) ==
    /\ Len(msgs') = Len(msgs) + 1
    /\ msgs'[Len(msgs')].ent = e

\* C5 (as claimed): every step that posts an event carrying e (Added,
\* Modified or Removed) leaves e's reference count incremented.
C5_EveryEventReferenced ==
    [][\A e \in Ents : Posts(e) => refcount'[e] > refcount[e]]_vars

\* C5 (amended): the producer takes a reference only for Added; Modified and
\* Removed are posted under that reference, which is released exactly once,
\* when Removed is handled.  So besides the provider's own reference an
\* entity holds exactly one reference from the moment Added is published
\* until Removed is handled, and none afterwards.
C5_OneReferenceFromAddedToRemoved ==
    \A e \in Ents :
        refcount[e] = ProviderRefs(e)
                      + (IF phase[e] # "unborn" /\ ~RemovedConsumed(e)
                         THEN 1 ELSE 0)

\* C5 witness: Modified and Removed for one entity are both posted and the
\* entity holds the single reference taken for Added.
C5_Witness ==
    \E i, j \in 1..Len(msgs) :
        /\ msgs[i].ent = msgs[j].ent
        /\ msgs[i].type \in {"ProcessModified", "ServiceModified"}
        /\ msgs[j].type \in {"ProcessRemoved", "ServiceRemoved"}
        /\ refcount[msgs[i].ent] = 1

\* The posted events of e, oldest first.
RECURSIVE SeqsOf(_, _)
SeqsOf(q, e) ==
    IF q = <<>> THEN <<>>
    ELSE IF Head(q).ent = e THEN <<Head(q).seq>> \o SeqsOf(Tail(q), e)
    ELSE SeqsOf(Tail(q), e)

C7_NoEventDropped ==
    \A e \in Ents : consumed[e] + InFlight(e) = Published(e)

\* C8: concurrently published Added events all show up exactly once: no
\* entity ever has two rows, and in every interleaving the list ends up
\* holding exactly one row for each entity of the run.
C8_AllAddedShownOnce ==
    /\ [](\A e \in Ents : Cardinality(Rows(e)) <= 1)
    /\ <>[](\A e \in scenario : Cardinality(Rows(e)) = 1)

\* C8 witness: both producers have published and the rows of the process
\* and of the service are both shown.
C8_Witness ==
    /\ Rows("p1") # {}
    /\ Rows("s1") # {}
    /\ wndLive

\* C9: when Removed for e is handled with highlighting disabled (after Added
\* and any Modified were handled), no row for e is left and e's count is
\* back to what the provider itself holds, as before Added was published.
C9_PlainRemoveRestoresBaseline ==
    [][\A e \in Ents :
        (Consumes(e, {"ProcessRemoved", "ServiceRemoved"}) /\ ~stateHighlighting)
            => (Rows(e)' = {} /\ refcount'[e] = ProviderRefs(e)')]_vars

\* C9 witness: Added, Modified and Removed of an entity were handled, the
\* last with highlighting off, and the row is gone at once (no Tick has run
\* yet: the service provider is still in its first run).
C9_Witness ==
    \E i \in 1..Len(items) :
        /\ runId = 1
        /\ ~items[i].inList
        /\ items[i].color # "Removed"
        /\ items[i].shown = 1
        /\ consumed[items[i].ent] = 3
        /\ refcount[items[i].ent] = 0

\* C10 (as claimed): a row tinted for removal never shows the normal or the
\* new colour again while it is in the list.
C10_PendingRemovalIsFinal ==
    [][\A i \in 1..Len(items) :
        (items[i].color = "Removed" /\ items'[i].inList)
            => items'[i].color = "Removed"]_vars

\* C11 (as claimed): an item that entered the New state does not decay to
\* Normal before a full Duration has passed since it entered, whatever the
\* timing of the Ticks and the timers.
C11_DecayNotBeforeDuration ==
    [][\A i \in 1..Len(items) :
        (items[i].state = "New" /\ items'[i].state = "Normal")
            => now >= items[i].born + Duration]_vars

\* C12 (as claimed): with highlighting on and the list live, an item that
\* entered the New state is Normal at every observation later than Duration
\* plus one tick period after it entered: the timer armed by the next Tick
\* after it entered has then fired and its batch has run.
C12_NormalAfterDurationPlusTick ==
    \A i \in 1..Len(items) :
        (wndLive /\ stateHighlighting /\ items[i].state = "New")
            => now <= items[i].born + Duration + TickPeriod

\* C13 (as claimed): handling Removed for a displayed entity with highlighting
\* on neither deletes its row nor releases a reference at that moment; with
\* highlighting off the row is deleted and the reference released at once.
C13_RemovedDefersRowAndReference ==
    [][\A e \in Ents :
        (Consumes(e, {"ProcessRemoved", "ServiceRemoved"}) /\ Rows(e) # {})
            => IF stateHighlighting
               THEN Rows(e)' = Rows(e) /\ refcount'[e] = refcount[e]
               ELSE Rows(e)' = {} /\ refcount'[e] = refcount[e] - 1]_vars

\* The entity of the message being handled has no row: none for the item,
\* none for its identity key.
NoRowFor(e) == Rows(e) = {} /\ RowsOfKey(KeyOf(e)) = {}

C15_RemovedWithoutRowIsNoOp ==
    [][\A e \in Ents :
        (Consumes(e, {"ProcessRemoved", "ServiceRemoved"}) /\ NoRowFor(e))
            => UNCHANGED <<items, refcount>>]_vars

\* C16 (as claimed): at most one highlight timer is armed at any time.
C16_OneTimerInFlight == Len(timers) <= 1

\* The effect of a delayed action is there in the list its: the decayed item
\* is in the Normal state, the removed row has left the list.
Done(a, its) ==
    CASE a.op = "SetNormal" -> its[a.item].state = "Normal"
      [] a.op = "BaseRemove" -> ~its[a.item].inList

\* C17 (as claimed): a delayed action requested before a delayed batch
\* begins is executed in that batch.
C17_RequestedBeforeBatchRunsInIt ==
    [][BatchTask =>
        \A k \in 1..Len(postQueuePending) : Done(postQueuePending[k], items')]_vars

\* The UI thread is inside a delayed batch: the delayed queue is drained and
\* the pending buffer not yet moved.
MidBatch == wndLive /\ msgs # <<>> /\ Head(msgs).type = "BatchTransfer"

\* C18: a delayed action requested while a delayed batch is executing is
\* held in the pending buffer and not executed in that batch (the delayed
\* queue and the existing items are untouched by the request); when the
\* batch completes, the pending actions are appended to the delayed queue in
\* order and nothing else changes; and a batch executes every action it
\* finds in the delayed queue, so the next timer cycle runs them.
C18_RequestedDuringBatchRunsInNext ==
    [][/\ (MidBatch /\ Len(postQueuePending') > Len(postQueuePending))
            => /\ postQueue' = postQueue
               /\ SubSeq(postQueuePending', 1, Len(postQueuePending))
                      = postQueuePending
               /\ \A i \in 1..Len(items) : items'[i] = items[i]
       /\ BatchTransfer
            => /\ postQueue' = postQueue \o postQueuePending
               /\ postQueuePending' = <<>>
               /\ items' = items
       /\ BatchDrain
            => /\ \A k \in 1..Len(postQueue) : Done(postQueue[k], items')
               /\ postQueue' = <<>>]_vars

\* C18 witness: an action was requested during a batch (more actions are
\* pending than when its drain ended) and waits in the pending buffer.
C18_Witness ==
    /\ MidBatch
    /\ Len(postQueuePending) > Head(msgs).seq
    /\ postQueue = <<>>

\* The step is a transition request on the context: an item is constructed,
\* Remove() is called on a row, or SetTemporaryState is called on a row.
TransitionRequested ==
    \/ \E e \in Ents : ItemCreated(e)
    \/ \E i \in 1..MaxItems : ItemRemoved(i)
    \/ \E i \in 1..MaxItems : \E st \in TemporaryStates : ItemTemporaryState(i, st)

\* C19 (as claimed): while state highlighting is off, a requested transition
\* leaves the immediate queue, the delayed queue and the pending buffer as
\* they were.
C19_DisabledBypassesQueues ==
    [][(~stateHighlighting /\ TransitionRequested)
        => UNCHANGED <<queue, postQueue, postQueuePending>>]_vars

\* C20: when Tick() is called or a highlight timer fires while the list's
\* handle is gone, nothing is posted to the UI thread and nothing is
\* executed: the posted work, the items and the three queues stay as they
\* were; and no batch ever runs for a list that is not live.
C20_NotLiveDiscardsBatch ==
    [][/\ (~wndLive /\ (CallTick \/ TimerDue))
            => UNCHANGED <<msgs, items, queue, postQueue, postQueuePending>>
       /\ (TickTask \/ BatchDrain \/ BatchTransfer) => wndLive]_vars

\* C20 witness: the list is gone, a Tick() call and a timer have both found
\* it gone, and the decay their batch would have run is still in the delayed
\* queue, its item still in the New state.
C20_Witness ==
    /\ ~wndLive
    /\ discarded = {"Tick", "Timer"}
    /\ timers = <<>>
    /\ \E k \in 1..Len(postQueue) :
           /\ postQueue[k].op = "SetNormal"
           /\ items[postQueue[k].item].state = "New"

\* The step is one of the UI thread: the window procedure handling a
\* message, or a task the highlighting context posted to it.
UiThreadStep ==
    \/ WmEntity
    \/ WmServicesUpdated
    \/ TickTask
    \/ BatchTask
    \/ WmDestroy

\* The step is a provider callback running on a provider thread.
ProviderStep ==
    \/ \E e \in Ents : ProviderAdd(e) \/ ProviderModify(e) \/ ProviderRemove(e)
    \/ ProviderRunEnd

\* C21: displayed state has a single writer: a step that changes the rows,
\* an item's state or colour, or a highlight queue is a step of the UI
\* thread; a provider callback changes reference counts and posted messages
\* only; a timer callback only posts the delayed batch.
C21_SingleWriter ==
    [][/\ (<<items, queue, postQueue, postQueuePending>>'
              # <<items, queue, postQueue, postQueuePending>>) => UiThreadStep
       /\ ProviderStep => UNCHANGED <<hlVars, timers, consumed>>
       /\ TimerFire => /\ UNCHANGED <<hlVars, refcount, consumed>>
                       /\ wndLive => msgs' = Append(msgs, Msg("BatchTask", NoEnt, 0, 0))
      ]_vars

\* C21 witness: a timer has fired and its batch is posted but not yet run:
\* the decay it will execute is still in the delayed queue and its item
\* still New; and a provider has an event posted.
C21_Witness ==
    /\ \E k \in 1..Len(msgs) : msgs[k].type = "BatchTask"
    /\ \E k \in 1..Len(msgs) : msgs[k].type \in EntityTypes
    /\ \E k \in 1..Len(postQueue) :
           /\ postQueue[k].op = "SetNormal"
           /\ items[postQueue[k].item].state = "New"

\* The Tick tasks posted and not yet run.
TickTasks(q) == {k \in 1..Len(q) : q[k].type = "TickTask"}

\* C27: consuming a ServicesUpdated message calls Tick exactly once (one
\* Tick task more is posted) and changes neither the rows nor any entity's
\* reference count.
C27_ServicesUpdatedTicksOnce ==
    [][WmServicesUpdated =>
          /\ Cardinality(TickTasks(msgs')) = Cardinality(TickTasks(msgs)) + 1
          /\ msgs' = Append(Tail(msgs), Msg("TickTask", NoEnt, 0, 0))
          /\ UNCHANGED <<items, refcount>>
      ]_vars

\* C27 witness: a ServicesUpdated message has been consumed while rows are
\* displayed: its Tick task is posted, the rows and the references are there.
C27_Witness ==
    /\ TickTasks(msgs) # {}
    /\ \E e \in Ents : Rows(e) # {} /\ refcount[e] > 0
    /\ \A k \in 1..Len(msgs) : msgs[k].type # "ServicesUpdated"

\* The Added messages of e posted and not yet handled.
AddedInFlight(e) ==
    Cardinality({k \in 1..Len(msgs) :
                    /\ msgs[k].ent = e
                    /\ msgs[k].type \in {"ProcessAdded", "ServiceAdded"}})

\* C28 (as claimed): each displayed row owns exactly one counted reference
\* to its entity: the references held for the presentation side (all but
\* the provider's own) equal the entity's rows plus its Added messages not
\* yet handled.  Stated for the states in which the window exists.
C28_OneReferencePerRow ==
    wndLive =>
        \A e \in Ents :
            refcount[e] - ProviderRefs(e)
                = Cardinality(Rows(e)) + AddedInFlight(e)

\* C30: an action handed to EnqueuePost is not executed by the first delayed
\* batch that runs after the request: that batch executes what the delayed
\* queue held, leaves the pending actions unexecuted and moves them, in
\* order, into the delayed queue it has just emptied; nothing but a batch
\* puts an action into the delayed queue.  So the action is executed by the
\* batch after that, which needs a second timer to fire.
C30_PostedRunsInSecondBatch ==
    [][/\ BatchTask =>
            /\ \A k \in 1..Len(postQueuePending) :
                   ~Done(postQueuePending[k], items')
            /\ postQueue' = postQueuePending
            /\ postQueuePending' = <<>>
            /\ \A k \in 1..Len(postQueue) : Done(postQueue[k], items')
       /\ (postQueue' # postQueue) => BatchTask
      ]_vars

\* C30 witness: the first batch after a request has run and no second one is
\* on its way: the requested decay sits in the delayed queue, moved there
\* from the pending buffer, its item is still New, and no timer is armed and
\* no batch posted.
C30_Witness ==
    /\ wndLive
    /\ timers = <<>>
    /\ postQueuePending = <<>>
    /\ \A k \in 1..Len(msgs) : msgs[k].type # "BatchTask"
    /\ \E k \in 1..Len(postQueue) :
           /\ postQueue[k].op = "SetNormal"
           /\ items[postQueue[k].item].state = "New"
           /\ items[postQueue[k].item].inList

\* What a handler leaves of the displayed rows, their visual states and
\* the reference counts.
Displayed(u) == <<u.its, u.rc, u.hl>>

Carriers(id) ==
    {k \in 1..Len(msgs) : /\ msgs[k].type = "ServiceModified"
                           /\ <<msgs[k].ent, msgs[k].seq>> = id}

\* C26 (as claimed): every service-modified copy is owned by exactly one
\* event and is freed exactly once, by the UI thread after the Modified
\* handler has run: no block is freed twice or read after it was freed, an
\* allocated block is carried by exactly one posted message (which frees it
\* when it is handled), and a freed block is carried by none and its event
\* has been handled.
C26_PayloadFreedExactlyOnce ==
    /\ heap.faults = {}
    /\ \A id \in heap.live : Cardinality(Carriers(id)) = 1
    /\ \A id \in heap.freed : Carriers(id) = {} /\ consumed[id[1]] >= id[2]

\* The delayed action each immediate action requests when it is executed.
Requested(q) ==
    [k \in 1..Len(q) |->
        Act(IF q[k].op = "TintRemoved" THEN "BaseRemove" ELSE "SetNormal",
            q[k].item)]

\* The colour an immediate action gives its item.
ColorOf(op) == IF op = "TempNew" THEN "New" ELSE "Removed"

\* Every item the immediate actions q act on has in its the colour of the
\* last of them.
Tinted(q, its) ==
    \A i \in 1..Len(its) :
        LET K == {k \in 1..Len(q) : q[k].item = i}
        IN  K # {} =>
              its[i].color = ColorOf(q[CHOOSE k \in K : \A j \in K : j <= k].op)

\* ts without its k-th element.
Without(ts, k) ==
    [j \in 1..(Len(ts) - 1) |-> IF j < k THEN ts[j] ELSE ts[j + 1]]

\* The flag or the duration is set from the options.
OptionChanged ==
    \/ SetStateHighlighting
    \/ \E d \in Durations : SetHighlightingDuration(d)

\* C24: changing the highlight duration or the flag affects future
\* transitions only: the step leaves the armed timers with their fire times
\* and the immediate queue, the pending buffer, the delayed queue and the
\* items as they were; the armed timers change only by a new one being
\* armed behind them or by one of them firing, not before its fire time;
\* and the queued actions are executed whatever the flag says: a Tick task
\* executes the whole immediate queue, a delayed batch the whole delayed
\* queue.
C24_OptionsAffectFutureOnly ==
    [][/\ OptionChanged => UNCHANGED <<timers, queue, postQueue,
                                       postQueuePending, items, msgs>>
       /\ (timers' # timers) =>
            \/ /\ Len(timers') = Len(timers) + 1
               /\ SubSeq(timers', 1, Len(timers)) = timers
            \/ \E k \in 1..Len(timers) :
                   timers[k] <= now /\ timers' = Without(timers, k)
       /\ TickTask => queue' = <<>> /\ Tinted(queue, items')
       /\ BatchTask => \A k \in 1..Len(postQueue) : Done(postQueue[k], items')
      ]_vars

\* C24 witness: a timer was armed at time 0 with the initial duration; since
\* then the duration was changed and the flag switched off; the timer still
\* has its fire time and the requested decay is still queued.
C24_Witness ==
    /\ now = 0
    /\ timers = <<Duration>>
    /\ highlightingDuration # Duration
    /\ ~stateHighlighting
    /\ postQueuePending # <<>>

\* C29: when the task posted by Tick() completes, every action that was in
\* the immediate queue has been executed exactly once (each has requested
\* its one delayed action, in order, and its item has the colour the last
\* of them gives), in the one step of the UI thread that is the task; the
\* immediate queue is empty; and one more one-shot timer is armed, due after
\* the duration current at that moment.
C29_TickTaskDrainsAndArms ==
    [][TickTask =>
          /\ queue' = <<>>
          /\ postQueuePending' = postQueuePending \o Requested(queue)
          /\ Tinted(queue, items')
          /\ Len(timers') = Len(timers) + 1
          /\ timers'[Len(timers')] = now + highlightingDuration
          /\ SubSeq(timers', 1, Len(timers)) = timers
          /\ msgs' = Tail(msgs)
      ]_vars

\* C29 witness: a Tick task has run on a queued removal tint after the
\* duration was changed: the queue is empty, the row is tinted, its removal
\* is requested, and the timer is due after the changed duration.
C29_Witness ==
    /\ queue = <<>>
    /\ highlightingDuration # Duration
    /\ timers # <<>>
    /\ timers[Len(timers)] = now + highlightingDuration
    /\ \E k \in 1..Len(postQueuePending) :
           /\ postQueuePending[k].op = "BaseRemove"
           /\ items[postQueuePending[k].item].color = "Removed"

\* C22 (as claimed): no dequeued highlight action is executed while a
\* highlight queue lock is held.
C22_NoInvokeUnderLock ==
    [][(TickInvoke \/ BatchInvoke) => LocksHeld = {}]_vars

\* q grows by one element at its tail.
Appended(q, r) == Len(r) = Len(q) + 1 /\ SubSeq(r, 1, Len(q)) = q

\* C23: highlight actions are applied first in, first out.  A request joins
\* its queue at the tail; an action leaves the immediate or the delayed
\* queue only from the head and is the one executed in that step (its item
\* has its colour, or its state, or has left the list; the delayed action
\* it requests joins the pending buffer at the tail); the pending buffer is
\* emptied only by the transfer, which puts its actions, in order, behind
\* those of the delayed queue.
C23_Fifo ==
    [][/\ Len(queue') > Len(queue) => Appended(queue, queue')
       /\ Len(queue') < Len(queue) =>
            /\ queue' = Tail(queue)
            /\ Tinted(<<Head(queue)>>, items')
            /\ postQueuePending'
                  = postQueuePending \o Requested(<<Head(queue)>>)
       /\ Len(postQueuePending') > Len(postQueuePending) =>
            Appended(postQueuePending, postQueuePending')
       /\ Len(postQueue') < Len(postQueue) =>
            /\ postQueue' = Tail(postQueue)
            /\ Done(Head(postQueue), items')
       /\ (Len(postQueuePending') < Len(postQueuePending)
             \/ Len(postQueue') > Len(postQueue)) =>
            /\ postQueue' = postQueue \o postQueuePending
            /\ postQueuePending' = <<>>
      ]_vars

\* C23 witness: the UI thread is inside the drain of an immediate queue that
\* held a removal tint and, behind it, a request for the New state of the
\* same row: the tint has been executed (the row is tinted, its removal is
\* pending), the later request is still queued.
C23_Witness ==
    /\ LocksHeld = {"_queue"}
    /\ queue = <<Act("TempNew", 1)>>
    /\ postQueuePending = <<Act("BaseRemove", 1)>>
    /\ items[1].color = "Removed"

\* The actions held in the delayed queue and, behind them, the pending ones.
Delayed(pq, pend) == pq \o pend

\* C31: an action handed to Enqueue or EnqueuePost is executed at most
\* once, whatever the interleaving of Ticks, timer fires and calls from other
\* threads: the step that executes an action takes it out of its queue and
\* puts it nowhere else (an immediate action leaves behind only the one
\* delayed action it requests), and no other step copies an action: the
\* three queues together hold at most one action more after it, and the
\* transfer leaves the delayed and pending actions what they were.
C31_AtMostOnce ==
    [][/\ TickInvoke =>
            /\ queue' = Tail(queue)
            /\ postQueuePending'
                  = postQueuePending \o Requested(<<Head(queue)>>)
            /\ postQueue' = postQueue
       /\ BatchInvoke =>
            /\ postQueue' = Tail(postQueue)
            /\ UNCHANGED <<queue, postQueuePending>>
       /\ BatchTransfer =>
            /\ Delayed(postQueue', postQueuePending')
                  = Delayed(postQueue, postQueuePending)
            /\ queue' = queue
       /\ Len(queue') + Len(postQueue') + Len(postQueuePending')
             <= Len(queue) + Len(postQueue) + Len(postQueuePending) + 1
      ]_vars

\* The delayed batches posted to the UI thread or begun by it.
Batches ==
    {k \in 1..Len(msgs) :
        msgs[k].type \in {"BatchTask", "BatchLocked", "BatchTransfer"}}

\* C31 witness: two timers have fired one after the other and both their
\* batches are posted; a removal tint has been executed (the row is tinted)
\* and the removal it requested is held exactly once.
C31_Witness ==
    /\ Cardinality(Batches) >= 2
    /\ queue = <<>>
    /\ \E i \in 1..Len(items) :
           /\ items[i].color = "Removed"
           /\ items[i].inList
           /\ Delayed(postQueue, postQueuePending) = <<Act("BaseRemove", i)>>

\* The UI thread waits for a lock the worker owns while the worker waits for
\* a lock the UI thread owns.
Deadlocked ==
    /\ UiWants # "none"
    /\ WorkerWants # "none"
    /\ Owner(UiWants) = "worker"
    /\ Owner(WorkerWants) = "ui"

\* C32: the highlight scheduler is deadlock-free: in no reachable state do
\* the UI thread and another thread each wait for a lock the other owns.
C32_DeadlockFree == ~Deadlocked

\* C32 witness: the UI thread is inside lock (_queue) in the immediate
\* batch, in front of lock (_postQueuePending) with the removal an executed
\* tint requests, while the worker waits for lock (_queue).
C32_Witness ==
    /\ sync.ui = "tickWantsPending"
    /\ sync.uiAct.op = "BaseRemove"
    /\ Owner("_queue") = "ui"
    /\ sync.worker = "wantsQueue"

\* ------------------------------------------------------------------- C35
\* C35: PhMainWndExiting is TRUE exactly when a prepare-for-early-shutdown
\* message has been handled more recently than any cancel-early-shutdown
\* message, and WM_PH_ACTIVATE is answered with PH_ACTIVATE_REPLY if and
\* only if the flag is FALSE, with 0 otherwise.
C35_ExitingFollowsPrepare ==
    /\ [](PhMainWndExiting <=> log.shutdown = "prepare")
    /\ [][WmActivate =>
            log'.activate = IF PhMainWndExiting THEN "0"
                            ELSE "PH_ACTIVATE_REPLY"]_vars

\* Prepare, cancel, prepare again: the flag is up and the activation request
\* has been refused.
C35_Witness ==
    /\ PhMainWndExiting
    /\ saved = 2
    /\ log.activate = "0"
    /\ log.relaunch = "failed"

\* ------------------------------------------------------------------- C36
\* C36: the settings are saved on every path to destruction: WM_DESTROY
\* saves them if and only if PhMainWndExiting is FALSE, the flag is TRUE
\* only after a prepare that saved them, so prepare then destroy saves
\* once and destroy without prepare saves once.
C36_SavedOnEveryPath ==
    /\ [](PhMainWndExiting => saved >= 1)
    /\ [](~wndLive => saved >= 1)
    /\ [][WmDestroy =>
            saved' = IF PhMainWndExiting THEN saved ELSE saved + 1]_vars
    /\ [][WmPrepareForEarlyShutdown =>
            (saved' = saved + 1 /\ PhMainWndExiting')]_vars

\* The window was destroyed after a prepare: one save.
C36_Witness ==
    /\ ~wndLive
    /\ PhMainWndExiting
    /\ log.relaunch = "none"
    /\ saved = 1

\* ------------------------------------------------------------------- C37
\* C37: "show details for all processes": when the elevated relaunch fails
\* early shutdown is cancelled, PhMainWndExiting is FALSE again and the
\* window stays; when it succeeds the window is destroyed with the flag
\* still TRUE.
C37_RelaunchFailureCancels ==
    [][\A ok \in BOOLEAN :
        ShowDetailsForAllProcesses(ok) =>
            IF ok THEN ~wndLive' /\ PhMainWndExiting'
            ELSE wndLive' /\ ~PhMainWndExiting']_vars

\* The relaunch failed while the flag was already up: it is down again.
C37_Witness ==
    /\ log.relaunch = "failed"
    /\ log.shutdown = "cancel"
    /\ ~PhMainWndExiting
    /\ wndLive
    /\ saved = 2

\* ------------------------------------------------------------------- C38
MenuEnabled(id) == menu.items[id] = "enabled"
PauseContinueAccepted ==
    (menu.controlsAccepted \div SERVICE_ACCEPT_PAUSE_CONTINUE) % 2 = 1
StopAccepted == (menu.controlsAccepted \div SERVICE_ACCEPT_STOP) % 2 = 1
PendingStates == {"SERVICE_START_PENDING", "SERVICE_CONTINUE_PENDING",
                  "SERVICE_PAUSE_PENDING", "SERVICE_STOP_PENDING"}

\* C38: PhpInitializeServiceMenu: with zero or several services selected
\* every item is disabled; with one, Running disables Start and Continue
\* and enables Pause iff pause/continue is accepted and Stop iff stop is
\* accepted; Paused disables Start and Pause and enables Continue iff
\* pause/continue is accepted and Stop iff stop is accepted; Stopped
\* disables Continue, Pause and Stop and leaves Start enabled; a pending
\* state disables all four; Continue and Pause are removed when
\* pause/continue is not accepted.
C38_ServiceMenu ==
    menu.initialized =>
        /\ menu.numberOfServices # 1 =>
                \A id \in ServiceMenuItems : menu.items[id] = "disabled"
        /\ menu.numberOfServices = 1 =>
            /\ menu.state = "SERVICE_RUNNING" =>
                    /\ ~MenuEnabled("ID_SERVICE_START")
                    /\ ~MenuEnabled("ID_SERVICE_CONTINUE")
                    /\ MenuEnabled("ID_SERVICE_PAUSE") <=> PauseContinueAccepted
                    /\ MenuEnabled("ID_SERVICE_STOP") <=> StopAccepted
            /\ menu.state = "SERVICE_PAUSED" =>
                    /\ ~MenuEnabled("ID_SERVICE_START")
                    /\ ~MenuEnabled("ID_SERVICE_PAUSE")
                    /\ MenuEnabled("ID_SERVICE_CONTINUE") <=> PauseContinueAccepted
                    /\ MenuEnabled("ID_SERVICE_STOP") <=> StopAccepted
            /\ menu.state = "SERVICE_STOPPED" =>
                    /\ ~MenuEnabled("ID_SERVICE_CONTINUE")
                    /\ ~MenuEnabled("ID_SERVICE_PAUSE")
                    /\ ~MenuEnabled("ID_SERVICE_STOP")
                    /\ MenuEnabled("ID_SERVICE_START")
            /\ menu.state \in PendingStates =>
                    /\ ~MenuEnabled("ID_SERVICE_START")
                    /\ ~MenuEnabled("ID_SERVICE_CONTINUE")
                    /\ ~MenuEnabled("ID_SERVICE_PAUSE")
                    /\ ~MenuEnabled("ID_SERVICE_STOP")
            /\ ~PauseContinueAccepted =>
                    /\ menu.items["ID_SERVICE_CONTINUE"] = "deleted"
                    /\ menu.items["ID_SERVICE_PAUSE"] = "deleted"

\* A running service that accepts stop and shutdown but not pause: Stop is
\* enabled, Pause and Continue are gone.
C38_Witness ==
    /\ menu.initialized
    /\ menu.numberOfServices = 1
    /\ menu.state = "SERVICE_RUNNING"
    /\ menu.controlsAccepted = 5
    /\ MenuEnabled("ID_SERVICE_STOP")
    /\ menu.items["ID_SERVICE_PAUSE"] = "deleted"
    /\ menu.items["ID_SERVICE_CONTINUE"] = "deleted"
    /\ MenuEnabled("ID_SERVICE_PROPERTIES")

ServiceAddedHandled ==
    /\ msgs # <<>>
    /\ GetMessage(msgs).type = "ServiceAdded"
    /\ consumed' # consumed

\* C34: a service Added event that carries run id 1 has its row inserted
\* with state highlighting off, so the row is not, and never becomes,
\* RecentlyAdded, and highlighting is on when the handler returns; an Added
\* event with another run id leaves the flag as it was.
C34_FirstRunNotHighlighted ==
    /\ [][ServiceAddedHandled =>
            LET m == GetMessage(msgs)
                i == Len(items')
            IN  /\ Len(items') = Len(items) + 1
                /\ items'[i].ent = m.ent
                /\ IF m.runId = 1
                   THEN /\ items'[i].state = "Normal"
                        /\ items'[i].color = "Normal"
                        /\ postQueuePending' = postQueuePending
                        /\ stateHighlighting'
                   ELSE /\ stateHighlighting' = stateHighlighting
                        /\ items'[i].state = "New" <=> stateHighlighting]_vars
    /\ [][\A i \in 1..Len(items) :
            items[i].state = "Normal" => items'[i].state = "Normal"]_vars

\* The first run is still on, the service's Added event has been handled
\* and the process's has not: the service's row is plain, nothing is
\* waiting to decay, and highlighting is on.
C34_Witness ==
    /\ runId = 1
    /\ consumed["s1"] = 1
    /\ consumed["p1"] = 0
    /\ \E i \in Rows("s1") : items[i].state = "Normal" /\ items[i].color = "Normal"
    /\ postQueuePending = <<>> /\ postQueue = <<>> /\ timers = <<>>
    /\ stateHighlighting

\* ------------------------------------------------------------------- C39
\* C39: setting an item's normal colour never changes the displayed colour
\* of an item that is showing the new-item tint or the pending-removal
\* tint; the new normal colour shows only once the item is in, or is back
\* in, the Normal state.
C39_NormalColourKeepsTint ==
    [][\A i \in 1..Len(items) : \A c \in NormalColors :
        (NormalColorSet(i, c) /\ items[i].color \in {"New", "Removed"})
            => items'[i].color = items[i].color]_vars

====
